---- MODULE Spec2Model ----
(***************************************************************************)
(* Verification model of the PGIS hotspot engine:                          *)
(*   utils/kde.js          (src/unnamed/part_004)  weighted KDE            *)
(*   favoribility worker   (src/unnamed/part_006)  IDW rasterisation       *)
(*   FavoribilityLayer.jsx, HotspotLayer.jsx       callers / canvas layer  *)
(*                                                                         *)
(* JavaScript numbers are modelled as exact rationals [n, d] (d > 0, in    *)
(* lowest terms).  Geographic coordinates are counted in units of 1e-4     *)
(* degree, lengths in metres.  JavaScript null / undefined / thrown errors *)
(* are records of their own shape, so that every value is a record.        *)
(***************************************************************************)
EXTENDS Integers, Sequences, FiniteSets, TLC

VARIABLES
    points,         \* calculateWeightedKDE argument: array of {lat,lng,weight}
    bandwidth,      \* calculateWeightedKDE argument (metres)
    cellSize,       \* calculateWeightedKDE argument (metres)
    boundary,       \* calculateWeightedKDE argument: GeoJSON or null
    pc,             \* position of the caller inside / after the call
    plan,           \* locals of calculateWeightedKDE once the grid is sized
    result,         \* value returned (or error thrown) by the call
    normalizedGrid, \* HotspotLayer: normalizeGrid(result.gridData, ...)
    call,           \* a direct call of normalizeGrid / the IDW estimator
    ret,            \* what that call returned
    heap,           \* a session of calls: the caller's arrays and objects, by identity
    log,            \* a session of calls: the calls made so far, with what they returned
    app             \* the state of the application (App component, map modules)

vars == <<points, bandwidth, cellSize, boundary, pc, plan, result,
          normalizedGrid, call, ret, heap, log, app>>

-----------------------------------------------------------------------------
(* JavaScript values *)

Null      == [null |-> TRUE]
Undefined == [undef |-> TRUE]
NoValue   == [none |-> TRUE]       \* a variable the caller has not set yet

-----------------------------------------------------------------------------
(* Exact rational arithmetic standing for IEEE doubles *)

RECURSIVE GCD(_, _)
GCD(a, b) == IF b = 0 THEN a ELSE GCD(b, a % b)

Abs(a) == IF a < 0 THEN -a ELSE a

Rat(n, d) ==
    LET g == GCD(Abs(n), Abs(d))
        s == IF d < 0 THEN -1 ELSE 1
    IN  [n |-> s * (n \div g), d |-> s * (d \div g)]

Num(i) == [n |-> i, d |-> 1]

IsNum(v) == DOMAIN v = {"n", "d"}

RAdd(a, b) ==
    LET g == GCD(a.d, b.d)
    IN  Rat(a.n * (b.d \div g) + b.n * (a.d \div g), (a.d \div g) * b.d)

RNeg(a) == [n |-> -a.n, d |-> a.d]

RSub(a, b) == RAdd(a, RNeg(b))

RMul(a, b) ==
    LET g1 == GCD(Abs(a.n), b.d)
        g2 == GCD(Abs(b.n), a.d)
    IN  IF a.n = 0 \/ b.n = 0 THEN Num(0)
        ELSE [n |-> (a.n \div g1) * (b.n \div g2),
              d |-> (a.d \div g2) * (b.d \div g1)]

RInv(a) == IF a.n < 0 THEN [n |-> -a.d, d |-> -a.n] ELSE [n |-> a.d, d |-> a.n]

RDiv(a, b) == RMul(a, RInv(b))

RSign(a) == IF a.n > 0 THEN 1 ELSE IF a.n < 0 THEN -1 ELSE 0

RLt(a, b) == RSign(RSub(a, b)) < 0

RLe(a, b) == RSign(RSub(a, b)) <= 0

RGt(a, b) == RLt(b, a)

RGe(a, b) == RLe(b, a)

RAbs(a) == [n |-> Abs(a.n), d |-> a.d]

\* Math.ceil and Math.floor (\div rounds towards minus infinity)
Ceil(a) == -((-a.n) \div a.d)

Floor(a) == a.n \div a.d

-----------------------------------------------------------------------------
(* Projection (kde.js, latLngToMeters / metersToLatLng) *)

\* 35.6892 and 51.3890 degrees, in units of 1e-4 degree
TEHRAN_CENTER_LAT == 356892

TEHRAN_CENTER_LNG == 513890

\* 111320 metres per degree = 11.132 metres per 1e-4 degree, to the metre
MetersPerUnit == 11

\* Math.cos(TEHRAN_CENTER_LAT * Math.PI / 180) = 0.8122, as the rational 9/11
CosCenterLat == Rat(9, 11)

latLngToMeters(lat, lng) ==
    LET latMeters == RMul(RSub(lat, Num(TEHRAN_CENTER_LAT)), Num(MetersPerUnit))
        lngMeters == RMul(RMul(RSub(lng, Num(TEHRAN_CENTER_LNG)), Num(MetersPerUnit)),
                          CosCenterLat)
    IN  [x |-> lngMeters, y |-> latMeters]

metersToLatLng(x, y) ==
    LET lng == RAdd(RDiv(x, RMul(Num(MetersPerUnit), CosCenterLat)),
                    Num(TEHRAN_CENTER_LNG))
        lat == RAdd(RDiv(y, Num(MetersPerUnit)), Num(TEHRAN_CENTER_LAT))
    IN  [lat |-> lat, lng |-> lng]

-----------------------------------------------------------------------------
(* Gaussian kernel (kde.js, gaussianKernel) *)

\* floor(1000 / sqrt(2 pi) * exp(-k / 2)) for k = 0 .. 12: the kernel in
\* fixed point; like the double it underflows to 0 far from the centre.
KernelTable == <<398, 241, 146, 89, 53, 32, 19, 12, 7, 4, 2, 1, 0>>

KernelScale == 1000

\* A variant of the kernel that does not fall off with distance
gaussianKernelFlat(dist2, bw) == Rat(KernelTable[1], KernelScale)

\* (1 / sqrt(2 pi)) * exp(-0.5 * u * u), u = distance / bandwidth, computed
\* from u * u = dist2 / bandwidth^2 by linear interpolation in KernelTable.
gaussianKernel(dist2, bw) ==
    LET u2   == RDiv(dist2, RMul(bw, bw))
        k    == Floor(u2)
        frac == RSub(u2, Num(k))
    IN  IF k + 2 > Len(KernelTable) THEN Num(0)
        ELSE RDiv(RSub(Num(KernelTable[k + 1]),
                       RMul(Num(KernelTable[k + 1] - KernelTable[k + 2]), frac)),
                  Num(KernelScale))

-----------------------------------------------------------------------------
(* Boundary parsing (kde.js, parseBoundary) *)

Infinity    == [inf |-> 1]

NegInfinity == [inf |-> -1]

\* a < b and a > b on doubles that may be +-Infinity
JsLt(a, b) ==
    IF IsNum(a) /\ IsNum(b) THEN RLt(a, b)
    ELSE IF IsNum(a) THEN b = Infinity
    ELSE IF IsNum(b) THEN a = NegInfinity
    ELSE a = NegInfinity /\ b = Infinity

JsGt(a, b) == JsLt(b, a)

Has(obj, field) == field \in DOMAIN obj

\* Lines 106-116.  numeric = TRUE: coords is a ring, coords[i] = [lng, lat].
\* numeric = FALSE: coords is a list of rings, so coords[i][0] and coords[i][1]
\* are arrays (or undefined); an array compared with a number converts to NaN
\* and every comparison is false.
RECURSIVE BBoxLoop(_, _, _, _)
BBoxLoop(coords, numeric, i, bbox) ==
    IF i > Len(coords) THEN bbox
    ELSE IF ~numeric THEN BBoxLoop(coords, numeric, i + 1, bbox)
    ELSE LET lng == Num(coords[i][1])
             lat == Num(coords[i][2])
         IN  BBoxLoop(coords, numeric, i + 1,
                [minLng |-> IF JsLt(lng, bbox.minLng) THEN lng ELSE bbox.minLng,
                 maxLng |-> IF JsGt(lng, bbox.maxLng) THEN lng ELSE bbox.maxLng,
                 minLat |-> IF JsLt(lat, bbox.minLat) THEN lat ELSE bbox.minLat,
                 maxLat |-> IF JsGt(lat, bbox.maxLat) THEN lat ELSE bbox.maxLat])

RECURSIVE parseBoundary(_)
parseBoundary(geoJSON) ==
    IF geoJSON = Null THEN Null
    ELSE IF geoJSON.type = "FeatureCollection" /\ Has(geoJSON, "features") THEN
        IF Len(geoJSON.features) > 0 THEN parseBoundary(geoJSON.features[1])
        ELSE Null
    ELSE IF geoJSON.type = "Feature" /\ Has(geoJSON, "geometry") THEN
        parseBoundary(geoJSON.geometry)
    ELSE IF ~Has(geoJSON, "coordinates") \/ Len(geoJSON.coordinates) = 0 THEN Null
    ELSE
        LET coordsArray == geoJSON.coordinates
            isMulti     == geoJSON.type = "MultiPolygon"
        IN  IF isMulti /\ Len(coordsArray[1]) = 0 THEN Null  \* coords undefined
            ELSE LET coords == IF isMulti THEN coordsArray[1][1] ELSE coordsArray
                 IN  IF Len(coords) = 0 THEN Null
                     ELSE [coords  |-> coords,
                           bbox    |-> BBoxLoop(coords, isMulti, 1,
                                         [minLng |-> Infinity, maxLng |-> NegInfinity,
                                          minLat |-> Infinity, maxLat |-> NegInfinity]),
                           isMulti |-> isMulti]

-----------------------------------------------------------------------------
(* Point in polygon (kde.js, isPointInPolygon) *)

\* 1e-10 degree in units of 1e-4 degree
DegenerateEdge == Rat(1, 1000000)

\* A variant of the edge test that casts the ray to the west
EdgeIntersectsWest(lat, lng, vi, vj) ==
    LET xi == Num(vi[1])
        yi == Num(vi[2])
        xj == Num(vj[1])
        yj == Num(vj[2])
    IN  /\ RGt(yi, lat) # RGt(yj, lat)
        /\ RGt(lng, RAdd(RDiv(RMul(RSub(xj, xi), RSub(lat, yi)), RSub(yj, yi)), xi))
        /\ RLt(lng, Num(IF vi[1] > vj[1] THEN vi[1] ELSE vj[1]))

\* One edge of the ray casting loop: vi = coords[i], vj = coords[j], [lng, lat]
EdgeIntersects(lat, lng, vi, vj) ==
    LET xi == Num(vi[1])
        yi == Num(vi[2])
        xj == Num(vj[1])
        yj == Num(vj[2])
    IN  /\ RGt(yi, lat) # RGt(yj, lat)
        /\ RLt(lng, RAdd(RDiv(RMul(RSub(xj, xi), RSub(lat, yi)), RSub(yj, yi)), xi))

\* a < 1e-10 for a rational a >= 0, by division (the products of RLt would
\* not fit)
BelowDegenerate(a) == a.n <= (a.d * DegenerateEdge.n - 1) \div DegenerateEdge.d

EdgeDegenerate(vi, vj) == BelowDegenerate(RAbs(RSub(Num(vj[2]), Num(vi[2]))))

\* for (let i = 0, j = coords.length - 1; i < coords.length; j = i++)
RECURSIVE RayCastPolygon(_, _, _, _, _, _)
RayCastPolygon(lat, lng, coords, i, j, inside) ==
    IF i > Len(coords) THEN inside
    ELSE IF EdgeDegenerate(coords[i], coords[j])
         THEN RayCastPolygon(lat, lng, coords, i + 1, i, inside)
    ELSE RayCastPolygon(lat, lng, coords, i + 1, i,
             IF EdgeIntersects(lat, lng, coords[i], coords[j]) THEN ~inside ELSE inside)

isPointInPolygon(lat, lng, bnd) ==
    IF bnd = Null THEN TRUE
    ELSE IF \/ JsLt(lng, bnd.bbox.minLng) \/ JsGt(lng, bnd.bbox.maxLng)
            \/ JsLt(lat, bnd.bbox.minLat) \/ JsGt(lat, bnd.bbox.maxLat)
         THEN FALSE
    ELSE RayCastPolygon(lat, lng, bnd.coords, 1, Len(bnd.coords), FALSE)

-----------------------------------------------------------------------------
(* Weighted kernel density estimation (kde.js, calculateWeightedKDE) *)

MAX_CELLS == 500000

\* return { gridData: [], min: 0, max: 0, width: 0, height: 0, bounds: null }
EmptyGrid ==
    [gridData |-> <<>>, min |-> Num(0), max |-> Num(0),
     width |-> 0, height |-> 0, bounds |-> Null]

\* new Array(NaN) throws RangeError: Invalid array length
RangeError == [error |-> "RangeError"]

\* Variants of the filter of lines 181-187: one that lets negative weights
\* through, one that drops weight 0
IsValidPointAnyWeight(p) ==
    /\ p.lat # Undefined
    /\ p.lng # Undefined
    /\ p.weight # Undefined

IsValidPointPositive(p) ==
    /\ p.lat # Undefined
    /\ p.lng # Undefined
    /\ p.weight # Undefined
    /\ RGt(p.weight, Num(0))

\* The filter callback of lines 181-187
IsValidPoint(p) ==
    /\ p.lat # Undefined
    /\ p.lng # Undefined
    /\ p.weight # Undefined
    /\ RGe(p.weight, Num(0))

\* Lines 215-227: bounding box of the valid points, in metres
RECURSIVE PointsExtent(_, _, _)
PointsExtent(validPoints, i, ext) ==
    IF i > Len(validPoints) THEN ext
    ELSE LET m == latLngToMeters(validPoints[i].lat, validPoints[i].lng)
         IN  PointsExtent(validPoints, i + 1,
                [minLat |-> IF JsLt(m.y, ext.minLat) THEN m.y ELSE ext.minLat,
                 maxLat |-> IF JsGt(m.y, ext.maxLat) THEN m.y ELSE ext.maxLat,
                 minLng |-> IF JsLt(m.x, ext.minLng) THEN m.x ELSE ext.minLng,
                 maxLng |-> IF JsGt(m.x, ext.maxLng) THEN m.x ELSE ext.maxLng])

\* Lines 200-235: the grid extent in metres.  The bounding box of a boundary
\* that is not a MultiPolygon stays (Infinity, -Infinity); projecting and
\* padding it leaves it infinite.
GridExtent(validPoints, bw, parsedBoundary) ==
    IF parsedBoundary # Null THEN
        LET bbox == parsedBoundary.bbox
        IN  IF IsNum(bbox.minLat) THEN
                LET sw == latLngToMeters(bbox.minLat, bbox.minLng)
                    ne == latLngToMeters(bbox.maxLat, bbox.maxLng)
                IN  [minLat |-> sw.y, maxLat |-> ne.y, minLng |-> sw.x, maxLng |-> ne.x]
            ELSE [minLat |-> Infinity, maxLat |-> NegInfinity,
                  minLng |-> Infinity, maxLng |-> NegInfinity]
    ELSE
        LET e == PointsExtent(validPoints, 1,
                    [minLat |-> Infinity, maxLat |-> NegInfinity,
                     minLng |-> Infinity, maxLng |-> NegInfinity])
            padding == RMul(bw, Num(2))
        IN  [minLat |-> RSub(e.minLat, padding), maxLat |-> RAdd(e.maxLat, padding),
             minLng |-> RSub(e.minLng, padding), maxLng |-> RAdd(e.maxLng, padding)]

\* The largest integer whose square does not exceed k
RECURSIVE ISqrt(_, _, _)
ISqrt(k, lo, hi) ==
    IF lo >= hi THEN lo
    ELSE LET mid == (lo + hi + 1) \div 2
         IN  IF mid <= k \div mid THEN ISqrt(k, mid, hi) ELSE ISqrt(k, lo, mid - 1)

SqrtScale == 1000

\* Math.sqrt in fixed point: the smallest multiple of 1 / SqrtScale whose
\* square is not below r.  Like the double it stands for, the root of a ratio
\* above 1 is above 1, so that every re-invocation of line 247 enlarges the
\* cell.
Sqrt(r) ==
    LET k == Ceil(RMul(r, Num(SqrtScale * SqrtScale)))
        f == ISqrt(k, 0, k)
    IN  Rat(IF f * f = k THEN f ELSE f + 1, SqrtScale)

\* A variant of line 243 that never coarsens
ExceedsCeilingNever(gridWidth, gridHeight) == FALSE

\* A variant of line 243 with twice the ceiling
ExceedsCeilingLoose(gridWidth, gridHeight) == gridWidth * gridHeight > 2 * MAX_CELLS

\* Line 243: the guard against excessive memory usage
ExceedsCeiling(gridWidth, gridHeight) == gridWidth * gridHeight > MAX_CELLS

\* Lines 174-250: everything before the grid is allocated.  depth counts the
\* re-invocations of line 247.
RECURSIVE KDEPlan(_, _, _, _, _)
KDEPlan(pts, bw, cs, bnd, depth) ==
    IF pts = Null \/ pts = Undefined THEN [kind |-> "empty", depth |-> depth]
    ELSE IF Len(pts.arr) = 0 THEN [kind |-> "empty", depth |-> depth]
    ELSE
    LET validPoints    == SelectSeq(pts.arr, IsValidPoint)
        parsedBoundary == IF bnd # Null THEN parseBoundary(bnd) ELSE Null
    IN  IF Len(validPoints) = 0 THEN [kind |-> "empty", depth |-> depth]
        ELSE
        LET ext == GridExtent(validPoints, bw, parsedBoundary)
        IN  IF ~IsNum(ext.minLat) THEN
                \* gridWidth = gridHeight = -Infinity, the product exceeds
                \* MAX_CELLS, scale = Infinity; in the re-invocation
                \* gridWidth = ceil(-Infinity / Infinity) = NaN, the size test
                \* is false and new Array(NaN) throws.
                [kind |-> "throw", depth |-> depth + 1]
            ELSE
            LET gridWidth  == Ceil(RDiv(RSub(ext.maxLng, ext.minLng), cs))
                gridHeight == Ceil(RDiv(RSub(ext.maxLat, ext.minLat), cs))
            IN  IF ExceedsCeiling(gridWidth, gridHeight) THEN
                    LET scale == Sqrt(Rat(gridWidth * gridHeight, MAX_CELLS))
                        adjustedCellSize == RMul(cs, scale)
                    IN  KDEPlan(pts, bw, adjustedCellSize, bnd, depth + 1)
                ELSE [kind |-> "grid", depth |-> depth,
                      validPoints |-> validPoints, parsedBoundary |-> parsedBoundary,
                      ext |-> ext, gridWidth |-> gridWidth, gridHeight |-> gridHeight,
                      cellSize |-> cs]

\* Lines 283-294: the density of one cell
RECURSIVE DensitySum(_, _, _, _, _)
DensitySum(pointsInMeters, i, cellX, cellY, bw) ==
    IF i > Len(pointsInMeters) THEN Num(0)
    ELSE LET pt    == pointsInMeters[i]
             dx    == RSub(cellX, pt.x)
             dy    == RSub(cellY, pt.y)
             dist2 == RAdd(RMul(dx, dx), RMul(dy, dy))
         IN  RAdd(RMul(pt.weight, gaussianKernel(dist2, bw)),
                  DensitySum(pointsInMeters, i + 1, cellX, cellY, bw))

CellCenter(p, row, col) ==
    LET half == RDiv(p.cellSize, Num(2))
    IN  [x |-> RAdd(RAdd(p.ext.minLng, RMul(Num(col), p.cellSize)), half),
         y |-> RAdd(RAdd(p.ext.minLat, RMul(Num(row), p.cellSize)), half)]

\* Lines 270-296: the value stored for cell (row, col), Null when clipped
CellValue(p, pointsInMeters, bw, row, col) ==
    LET c  == CellCenter(p, row, col)
        ll == metersToLatLng(c.x, c.y)
    IN  IF p.parsedBoundary # Null
           /\ ~isPointInPolygon(ll.lat, ll.lng, p.parsedBoundary)
        THEN Null
        ELSE RDiv(DensitySum(pointsInMeters, 1, c.x, c.y, bw), RMul(bw, bw))

\* Lines 263-264 and 298-299: the running minimum and maximum
RECURSIVE RunningMin(_, _, _)
RunningMin(grid, i, minValue) ==
    IF i > Len(grid) THEN minValue
    ELSE RunningMin(grid, i + 1,
            IF grid[i] # Null /\ JsLt(grid[i], minValue) THEN grid[i] ELSE minValue)

RECURSIVE RunningMax(_, _, _)
RunningMax(grid, i, maxValue) ==
    IF i > Len(grid) THEN maxValue
    ELSE RunningMax(grid, i + 1,
            IF grid[i] # Null /\ JsGt(grid[i], maxValue) THEN grid[i] ELSE maxValue)

\* A variant of lines 252-302 that stores the grid column by column
RasterizeGridByColumn(p, bw) ==
    LET w == p.gridWidth
        h == p.gridHeight
        pointsInMeters ==
            [i \in 1..Len(p.validPoints) |->
                [x |-> latLngToMeters(p.validPoints[i].lat, p.validPoints[i].lng).x,
                 y |-> latLngToMeters(p.validPoints[i].lat, p.validPoints[i].lng).y,
                 weight |-> p.validPoints[i].weight]]
    IN  [k \in 1..(w * h) |->
            CellValue(p, pointsInMeters, bw, (k - 1) % h, (k - 1) \div h)]

\* Lines 252-302: the grid, row by row
RasterizeGrid(p, bw) ==
    LET w == p.gridWidth
        h == p.gridHeight
        pointsInMeters ==
            [i \in 1..Len(p.validPoints) |->
                [x |-> latLngToMeters(p.validPoints[i].lat, p.validPoints[i].lng).x,
                 y |-> latLngToMeters(p.validPoints[i].lat, p.validPoints[i].lng).y,
                 weight |-> p.validPoints[i].weight]]
    IN  [k \in 1..(w * h) |->
            CellValue(p, pointsInMeters, bw, (k - 1) \div w, (k - 1) % w)]

\* A variant of lines 304-334 without the test of line 305
KDEReturnUnchecked(p, gridData) ==
    LET sw == metersToLatLng(p.ext.minLng, p.ext.minLat)
        ne == metersToLatLng(p.ext.maxLng, p.ext.maxLat)
    IN  [gridData |-> gridData,
         min      |-> RunningMin(gridData, 1, Infinity),
         max      |-> RunningMax(gridData, 1, NegInfinity),
         width    |-> p.gridWidth,
         height   |-> p.gridHeight,
         bounds   |-> [south |-> sw.lat, west |-> sw.lng,
                       north |-> ne.lat, east |-> ne.lng],
         cellSize |-> p.cellSize]

\* Lines 304-334: the value returned
KDEReturn(p, gridData) ==
    LET validCells == Cardinality({k \in DOMAIN gridData : gridData[k] # Null})
        sw == metersToLatLng(p.ext.minLng, p.ext.minLat)
        ne == metersToLatLng(p.ext.maxLng, p.ext.maxLat)
    IN  IF validCells = 0 THEN EmptyGrid
        ELSE [gridData |-> gridData,
              min      |-> RunningMin(gridData, 1, Infinity),
              max      |-> RunningMax(gridData, 1, NegInfinity),
              width    |-> p.gridWidth,
              height   |-> p.gridHeight,
              bounds   |-> [south |-> sw.lat, west |-> sw.lng,
                            north |-> ne.lat, east |-> ne.lng],
              cellSize |-> p.cellSize]

calculateWeightedKDE(pts, bw, cs, bnd) ==
    LET p == KDEPlan(pts, bw, cs, bnd, 0)
    IN  IF p.kind = "empty" THEN EmptyGrid
        ELSE IF p.kind = "throw" THEN RangeError
        ELSE KDEReturn(p, RasterizeGrid(p, bw))

-----------------------------------------------------------------------------
(* Normalisation (kde.js, normalizeGrid) *)

\* A variant of line 69 that divides by max instead of max - min
normalizeGridByMax(gridData, min, max, newMin, newMax) ==
    LET newRange == RSub(newMax, newMin)
    IN  IF max = min THEN [i \in 1..Len(gridData) |-> newMin]
        ELSE [i \in 1..Len(gridData) |->
                IF gridData[i] = Null \/ gridData[i] = Undefined THEN Null
                ELSE RAdd(RMul(RDiv(RSub(gridData[i], min), max), newRange), newMin)]

normalizeGrid(gridData, min, max, newMin, newMax) ==
    IF max = min THEN [i \in DOMAIN gridData |-> newMin]
    ELSE LET range    == RSub(max, min)
             newRange == RSub(newMax, newMin)
         IN  [i \in DOMAIN gridData |->
                IF gridData[i] = Null \/ gridData[i] = Undefined THEN Null
                ELSE RAdd(RMul(RDiv(RSub(gridData[i], min), range), newRange), newMin)]

-----------------------------------------------------------------------------
(* IDW estimator (favoribility worker idwInterpolate, FavoribilityLayer quickIDW) *)

\* if (distance < 0.0001): 0.0001 degree is one unit
IdwEpsilon == 1

\* A variant of the loop without the shortcut of line 17: a point closer than
\* epsilon is weighted as if it were at distance epsilon
RECURSIVE IdwLoopClamped(_, _, _, _, _, _)
IdwLoopClamped(lat, lng, pts, i, numerator, denominator) ==
    IF i > Len(pts) THEN
        IF RGt(denominator, Num(0)) THEN RDiv(numerator, denominator) ELSE Num(0)
    ELSE LET dLat  == RSub(lat, pts[i].lat)
             dLng  == RSub(lng, pts[i].lng)
             dist2 == RAdd(RMul(dLat, dLat), RMul(dLng, dLng))
             eps2  == Num(IdwEpsilon * IdwEpsilon)
             weight == RInv(IF RLt(dist2, eps2) THEN eps2 ELSE dist2)
         IN  IdwLoopClamped(lat, lng, pts, i + 1,
                            RAdd(numerator, RMul(weight, pts[i].score)),
                            RAdd(denominator, weight))

\* The loop of both estimators, called with power = 2 everywhere:
\* Math.pow(distance, 2) is the squared distance dist2, and distance < epsilon
\* is dist2 < epsilon^2.
RECURSIVE IdwLoop(_, _, _, _, _, _)
IdwLoop(lat, lng, pts, i, numerator, denominator) ==
    IF i > Len(pts) THEN
        IF RGt(denominator, Num(0)) THEN RDiv(numerator, denominator) ELSE Num(0)
    ELSE LET dLat  == RSub(lat, pts[i].lat)
             dLng  == RSub(lng, pts[i].lng)
             dist2 == RAdd(RMul(dLat, dLat), RMul(dLng, dLng))
         IN  IF RLt(dist2, Num(IdwEpsilon * IdwEpsilon)) THEN pts[i].score
             ELSE LET weight == RInv(dist2)
                  IN  IdwLoop(lat, lng, pts, i + 1,
                              RAdd(numerator, RMul(weight, pts[i].score)),
                              RAdd(denominator, weight))

\* A variant of the estimator that keeps a count between calls
idwInterpolateCounting(lat, lng, pts) ==
    IF Len(pts) = 0 THEN Num(Len(log))
    ELSE RAdd(IdwLoop(lat, lng, pts, 1, Num(0), Num(0)), Num(Len(log)))

idwInterpolate(lat, lng, pts) ==
    IF Len(pts) = 0 THEN Num(0) ELSE IdwLoop(lat, lng, pts, 1, Num(0), Num(0))

quickIDW(lat, lng, pts) ==
    IF Len(pts) = 0 THEN Num(0) ELSE IdwLoop(lat, lng, pts, 1, Num(0), Num(0))

\* isPointInBoundary of the worker and of FavoribilityLayer: ray casting over
\* one ring, with no bounding box and no skipped edge
RECURSIVE isPointInBoundary(_, _, _, _, _, _)
isPointInBoundary(lat, lng, boundaryCoords, i, j, inside) ==
    IF i > Len(boundaryCoords) THEN inside
    ELSE isPointInBoundary(lat, lng, boundaryCoords, i + 1, i,
            IF EdgeIntersects(lat, lng, boundaryCoords[i], boundaryCoords[j])
            THEN ~inside ELSE inside)

\* let inside = false; for (const ring of boundaryCoords) if (...) { inside = true; break }
InsideAnyRing(lat, lng, rings) ==
    \E r \in 1..Len(rings) :
        isPointInBoundary(lat, lng, rings[r], 1, Len(rings[r]), FALSE)

\* Math.round
Round(a) == Floor(RAdd(a, Rat(1, 2)))

-----------------------------------------------------------------------------
(* The favoribility worker (self.onmessage) *)

\* Lines 76-99: the cells pushed, in the order of the two loops; node k is
\* row i = k \div (resolution + 1), column j = k % (resolution + 1)
WorkerCells(msg, latStep, lngStep) ==
    LET n      == msg.resolution + 1
        lat(k) == RAdd(msg.bounds.south, RMul(Num(k \div n), latStep))
        lng(k) == RAdd(msg.bounds.west, RMul(Num(k % n), lngStep))
        inside == SelectSeq([k \in 1..(n * n) |-> k - 1],
                            LAMBDA k : InsideAnyRing(lat(k), lng(k), msg.boundaryCoords))
    IN  [c \in 1..Len(inside) |->
            [lat |-> lat(inside[c]), lng |-> lng(inside[c]),
             latStep |-> latStep, lngStep |-> lngStep,
             favorability |-> idwInterpolate(lat(inside[c]), lng(inside[c]), msg.points)]]

\* Lines 68-74: the progress messages of rows i .. resolution.
\* i % 0 is NaN, which is never === 0.
RECURSIVE WorkerProgress(_, _)
WorkerProgress(resolutionPlusOne, i) ==
    LET every == resolutionPlusOne \div 10
    IN  IF i >= resolutionPlusOne THEN << >>
        ELSE (IF every # 0 /\ i % every = 0
              THEN << [type |-> "progress",
                       progress |-> Round(RMul(Rat(i, resolutionPlusOne), Num(100)))] >>
              ELSE << >>)
             \o WorkerProgress(resolutionPlusOne, i + 1)

\* The messages posted in answer to one message, in order
onmessage(msg) ==
    IF msg.type = "compute" THEN
        LET latStep == RDiv(RSub(msg.bounds.north, msg.bounds.south), Num(msg.resolution))
            lngStep == RDiv(RSub(msg.bounds.east, msg.bounds.west), Num(msg.resolution))
        IN  WorkerProgress(msg.resolution + 1, 0)
            \o << [type |-> "complete", cells |-> WorkerCells(msg, latStep, lngStep)] >>
    ELSE << >>

-----------------------------------------------------------------------------
(* The canvas layer (FavoribilityLayer.jsx) *)

\* const width = 1200: the canvas is scaled down to CanvasWidth pixels
CanvasWidth == 4

\* extractHotspotPoints: score || 0
extractHotspotPoints(data) ==
    IF data = Null \/ ~Has(data, "features") THEN << >>
    ELSE [f \in 1..Len(data.features) |->
            [lat   |-> Num(data.features[f].geometry.coordinates[2]),
             lng   |-> Num(data.features[f].geometry.coordinates[1]),
             score |-> IF data.features[f].properties.score = Undefined
                       THEN Num(0) ELSE data.features[f].properties.score]]

RECURSIVE Flatten(_)
Flatten(ss) == IF Len(ss) = 0 THEN << >> ELSE Head(ss) \o Flatten(Tail(ss))

\* extractBoundaryCoordinates: every ring of every polygon of every feature
FeatureRings(feature) ==
    IF feature.geometry.type = "MultiPolygon" THEN Flatten(feature.geometry.coordinates)
    ELSE IF feature.geometry.type = "Polygon" THEN feature.geometry.coordinates
    ELSE << >>

extractBoundaryCoordinates(boundaryData) ==
    IF boundaryData = Null \/ ~Has(boundaryData, "features") THEN << >>
    ELSE Flatten([f \in 1..Len(boundaryData.features) |->
                    FeatureRings(boundaryData.features[f])])

RMin(a, b) == IF RLt(b, a) THEN b ELSE a

RMax(a, b) == IF RGt(b, a) THEN b ELSE a

\* Lines 132-142: Math.min / Math.max over the vertices of every ring
RECURSIVE RingsBounds(_, _, _, _)
RingsBounds(rings, r, v, b) ==
    IF r > Len(rings) THEN b
    ELSE IF v > Len(rings[r]) THEN RingsBounds(rings, r + 1, 1, b)
    ELSE LET lng == Num(rings[r][v][1])
             lat == Num(rings[r][v][2])
         IN  RingsBounds(rings, r, v + 1,
                [minLat |-> IF b.minLat = Infinity THEN lat ELSE RMin(b.minLat, lat),
                 maxLat |-> IF b.maxLat = NegInfinity THEN lat ELSE RMax(b.maxLat, lat),
                 minLng |-> IF b.minLng = Infinity THEN lng ELSE RMin(b.minLng, lng),
                 maxLng |-> IF b.maxLng = NegInfinity THEN lng ELSE RMax(b.maxLng, lng)])

NoOverlay == [overlay |-> FALSE]

\* render, lines 126-227: the pixels written to the canvas (alpha, and the
\* interpolated value the colour is taken from) and the overlay's bounds;
\* NoOverlay when render returns at line 128.
render(data, boundaryData) ==
    LET hotspotPoints  == extractHotspotPoints(data)
        boundaryCoords == extractBoundaryCoordinates(boundaryData)
    IN  IF Len(hotspotPoints) = 0 \/ Len(boundaryCoords) = 0 THEN NoOverlay
        ELSE
        LET b0 == RingsBounds(boundaryCoords, 1, 1,
                     [minLat |-> Infinity, maxLat |-> NegInfinity,
                      minLng |-> Infinity, maxLng |-> NegInfinity])
            latPadding == RMul(RSub(b0.maxLat, b0.minLat), Rat(1, 100))
            lngPadding == RMul(RSub(b0.maxLng, b0.minLng), Rat(1, 100))
            minLat == RSub(b0.minLat, latPadding)
            maxLat == RAdd(b0.maxLat, latPadding)
            minLng == RSub(b0.minLng, lngPadding)
            maxLng == RAdd(b0.maxLng, lngPadding)
            width  == CanvasWidth
            height == Round(RDiv(RMul(Num(width), RSub(maxLat, minLat)),
                                 RSub(maxLng, minLng)))
            latStep == RDiv(RSub(maxLat, minLat), Num(height))
            lngStep == RDiv(RSub(maxLng, minLng), Num(width))
        IN  [overlay |-> TRUE,
             width   |-> width,
             height  |-> height,
             imageBounds |-> [minLat |-> minLat, minLng |-> minLng,
                              maxLat |-> maxLat, maxLng |-> maxLng],
             pixels  |->
                [k \in 1..(width * height) |->
                    LET py  == (k - 1) \div width
                        px  == (k - 1) % width
                        lat == RSub(maxLat, RMul(Num(py), latStep))
                        lng == RAdd(minLng, RMul(Num(px), lngStep))
                    IN  IF InsideAnyRing(lat, lng, boundaryCoords)
                        THEN [lat |-> lat, lng |-> lng, alpha |-> 220,
                              favorability |-> quickIDW(lat, lng, hotspotPoints)]
                        ELSE [lat |-> lat, lng |-> lng, alpha |-> 0]]]

-----------------------------------------------------------------------------
(* Inputs of the density engine *)

MaxPoints == 2

\* A vertex [lng, lat], given by its offset from the projection centre
V(dLng, dLat) == <<TEHRAN_CENTER_LNG + dLng, TEHRAN_CENTER_LAT + dLat>>

Pt(dLat, dLng, w) ==
    [lat |-> Num(TEHRAN_CENTER_LAT + dLat), lng |-> Num(TEHRAN_CENTER_LNG + dLng),
     weight |-> Num(w)]

\* Points that pass the filter of lines 181-187, and points that do not
ValidPool == { Pt(1, 1, 5), Pt(3, 2, 1), Pt(3, 2, 0) }

InvalidPool ==
    { Pt(1, 1, -1),
      [lat |-> Undefined, lng |-> Num(TEHRAN_CENTER_LNG), weight |-> Num(3)],
      [lat |-> Num(TEHRAN_CENTER_LAT), lng |-> Undefined, weight |-> Num(3)],
      [lat |-> Num(TEHRAN_CENTER_LAT), lng |-> Num(TEHRAN_CENTER_LNG),
       weight |-> Undefined] }

SeqsUpTo(S, n) == UNION { [1..k -> S] : k \in 0..n }

\* The points argument: missing, or an array of at most MaxPoints valid
\* points with at most one invalid point before or after them
PointArrays ==
    {Undefined}
    \cup { [arr |-> a] : a \in SeqsUpTo(ValidPool, MaxPoints) }
    \cup { [arr |-> <<u>> \o a] : u \in InvalidPool, a \in SeqsUpTo(ValidPool, 1) }
    \cup { [arr |-> a \o <<u>>] : u \in InvalidPool, a \in SeqsUpTo(ValidPool, 1) }

SquareRing(x0, y0, x1, y1) ==
    << V(x0, y0), V(x1, y0), V(x1, y1), V(x0, y1), V(x0, y0) >>

MultiPolygon(polys) == [type |-> "MultiPolygon", coordinates |-> polys]

Polygon(rings) == [type |-> "Polygon", coordinates |-> rings]

Feature(g) == [type |-> "Feature", geometry |-> g]

FeatureCollection(fs) == [type |-> "FeatureCollection", features |-> fs]

Boundaries ==
    { Null,
      MultiPolygon(<< <<SquareRing(0, 0, 4, 4)>> >>),
      MultiPolygon(<< <<SquareRing(0, 0, 2, 4)>>, <<SquareRing(2, 0, 4, 4)>> >>),
      MultiPolygon(<< << <<V(0, 0), V(4, 0), V(0, 4), V(0, 0)>> >> >>),
      MultiPolygon(<< << <<V(0, 0), V(4, 0), V(0, 4), V(0, 0)>> >>,
                      <<SquareRing(2, 2, 4, 4)>> >>),
      MultiPolygon(<< << <<V(0, 0), V(4, 4), V(0, 0)>> >> >>),
      FeatureCollection(<< Feature(MultiPolygon(<< <<SquareRing(0, 0, 4, 4)>> >>)) >>),
      FeatureCollection(<< >>),
      Polygon(<< SquareRing(0, 0, 4, 4) >>),
      MultiPolygon(<< << >> >>),
      [type |-> "Point", coordinates |-> V(1, 1)] }

Bandwidths == { Num(5), Num(10) }

CellSizes == { Num(11), Num(22) }

-----------------------------------------------------------------------------
(* The caller: HotspotLayer.jsx, the effect of lines 101-138 *)

Init ==
    /\ points \in PointArrays
    /\ bandwidth \in Bandwidths
    /\ cellSize \in CellSizes
    /\ boundary \in Boundaries
    /\ pc = "idle"
    /\ plan = NoValue
    /\ result = NoValue
    /\ normalizedGrid = NoValue
    /\ call = NoValue
    /\ ret = NoValue
    /\ heap = NoValue
    /\ log = NoValue
    /\ app = NoValue

\* calculateWeightedKDE, lines 174-250: validate, parse, size the grid; the
\* early returns and the error end the call here
PlanGrid ==
    /\ pc = "idle"
    /\ plan' = KDEPlan(points, bandwidth, cellSize, boundary, 0)
    /\ pc' = IF plan'.kind = "grid" THEN "planned"
             ELSE IF plan'.kind = "empty" THEN "computed" ELSE "error"
    /\ result' = IF plan'.kind = "grid" THEN result
                 ELSE IF plan'.kind = "empty" THEN EmptyGrid ELSE RangeError
    /\ UNCHANGED <<points, bandwidth, cellSize, boundary, normalizedGrid, call, ret, heap, log, app>>

\* calculateWeightedKDE, lines 252-334: fill the grid and return
Rasterize ==
    /\ pc = "planned"
    /\ result' = KDEReturn(plan, RasterizeGrid(plan, bandwidth))
    /\ pc' = "computed"
    /\ UNCHANGED <<points, bandwidth, cellSize, boundary, plan, normalizedGrid,
                   call, ret, heap, log, app>>

\* if (result.gridData && result.gridData.length > 0): normalise to 0-1
Normalize ==
    /\ pc = "computed"
    /\ Len(result.gridData) > 0
    /\ normalizedGrid' = normalizeGrid(result.gridData, result.min, result.max,
                                       Num(0), Num(1))
    /\ pc' = "rendered"
    /\ UNCHANGED <<points, bandwidth, cellSize, boundary, plan, result, call, ret, heap, log, app>>

\* else: setKdeResult(null)
NoResults ==
    /\ pc = "computed"
    /\ Len(result.gridData) = 0
    /\ normalizedGrid' = Null
    /\ pc' = "empty"
    /\ UNCHANGED <<points, bandwidth, cellSize, boundary, plan, result, call, ret, heap, log, app>>

Next == PlanGrid \/ Rasterize \/ Normalize \/ NoResults

Spec == Init /\ [][Next]_vars

-----------------------------------------------------------------------------
(* Grids too large for one pass: the coarsening of lines 237-248 *)

\* Side lengths of the large boundaries, in units of 1e-4 degree
LargeSpans == { 70, 100, 150 }

LargeBoundaries ==
    {Null} \cup { MultiPolygon(<< <<SquareRing(0, 0, a, b)>> >>) : a, b \in LargeSpans }

LargeBandwidths == { Num(100), Num(200) }

FineCellSizes == { Rat(1, 2), Num(1), Num(2) }

InitCoarsen ==
    /\ points \in { [arr |-> <<Pt(1, 1, 5)>>], [arr |-> <<Pt(1, 1, 5), Pt(40, 60, 1)>>] }
    /\ bandwidth \in LargeBandwidths
    /\ cellSize \in FineCellSizes
    /\ boundary \in LargeBoundaries
    /\ pc = "idle"
    /\ plan = NoValue
    /\ result = NoValue
    /\ normalizedGrid = NoValue
    /\ call = NoValue
    /\ ret = NoValue
    /\ heap = NoValue
    /\ log = NoValue
    /\ app = NoValue

\* Lines 252-334 for a grid too large to enumerate: the grid comes back with
\* the planned width and height, or as EmptyGrid when no cell is valid; which
\* of the two is left open.
RasterizeLarge ==
    /\ pc = "planned"
    /\ result' \in { EmptyGrid,
                     [width |-> plan.gridWidth, height |-> plan.gridHeight,
                      cellSize |-> plan.cellSize] }
    /\ pc' = "computed"
    /\ UNCHANGED <<points, bandwidth, cellSize, boundary, plan, normalizedGrid,
                   call, ret, heap, log, app>>

NextCoarsen == PlanGrid \/ RasterizeLarge

SpecCoarsen == InitCoarsen /\ [][NextCoarsen]_vars

-----------------------------------------------------------------------------
(* Direct calls of normalizeGrid, the IDW estimator, the worker and render *)

MaxGridLen == 3

MaxIdwPoints == 3

MaxResolution == 10

GridValues == { Null, Undefined, Num(0), Num(1), Num(2) }

NormCalls ==
    { [fn |-> "normalizeGrid", gridData |-> g, min |-> Num(lo), max |-> Num(hi),
       newMin |-> r[1], newMax |-> r[2]] :
         g \in SeqsUpTo(GridValues, MaxGridLen), lo \in 0..2, hi \in 0..2,
         r \in { <<Num(0), Num(1)>>, <<Num(1), Num(3)>> } }

\* A sample point of the estimator, offset from the projection centre by
\* (dLat / 2, dLng / 2) units
Sample(dLat2, dLng2, score) ==
    [lat |-> RAdd(Num(TEHRAN_CENTER_LAT), Rat(dLat2, 2)),
     lng |-> RAdd(Num(TEHRAN_CENTER_LNG), Rat(dLng2, 2)),
     score |-> Num(score)]

SamplePool == { Sample(0, 0, 5), Sample(0, 0, 1), Sample(1, 0, 3), Sample(6, 8, 2) }

IdwCalls ==
    { [fn |-> "idwInterpolate", lat |-> q.lat, lng |-> q.lng, points |-> ps] :
         q \in { Sample(0, 0, 0), Sample(1, 0, 0), Sample(6, 8, 0), Sample(2, 2, 0) },
         ps \in SeqsUpTo(SamplePool, MaxIdwPoints) }

RingSets ==
    { << >>,
      << SquareRing(1, 1, 3, 3) >>,
      << <<V(0, 0), V(4, 0), V(0, 4), V(0, 0)>>, SquareRing(2, 2, 4, 4) >>,
      << SquareRing(0, 0, 4, 4), SquareRing(1, 1, 3, 3) >> }

WorkerMessages ==
    { [fn |-> "onmessage", type |-> t, points |-> ps, boundaryCoords |-> rs,
       bounds |-> [south |-> Num(TEHRAN_CENTER_LAT), north |-> Num(TEHRAN_CENTER_LAT + 4),
                   west |-> Num(TEHRAN_CENTER_LNG), east |-> Num(TEHRAN_CENTER_LNG + 4)],
       resolution |-> res] :
         t \in {"compute", "init"},
         ps \in { << >>, <<Sample(2, 2, 5), Sample(6, 4, 1)>> },
         rs \in RingSets,
         res \in 1..MaxResolution }

VoteFeature(dLng, dLat, score) ==
    [type |-> "Feature",
     geometry |-> [type |-> "Point", coordinates |-> V(dLng, dLat)],
     properties |-> [score |-> score]]

HotspotData ==
    { Null,
      FeatureCollection(<< >>),
      FeatureCollection(<< VoteFeature(1, 1, Num(5)), VoteFeature(3, 2, Num(0)) >>),
      FeatureCollection(<< VoteFeature(2, 2, Undefined) >>) }

BoundaryData ==
    { Null,
      FeatureCollection(<< >>),
      FeatureCollection(<< Feature(MultiPolygon(<< <<SquareRing(0, 0, 4, 4)>> >>)) >>),
      FeatureCollection(<< Feature(Polygon(<< SquareRing(0, 0, 4, 4) >>)) >>),
      FeatureCollection(<< Feature(MultiPolygon(
          << << <<V(0, 0), V(4, 0), V(0, 4), V(0, 0)>> >>, <<SquareRing(2, 2, 4, 4)>> >>)) >>),
      FeatureCollection(<< Feature(Polygon(<< SquareRing(0, 0, 2, 4) >>)),
                           Feature(Polygon(<< SquareRing(2, 0, 4, 4) >>)) >>) }

RenderCalls ==
    { [fn |-> "render", data |-> d, boundaryData |-> b] :
         d \in HotspotData, b \in BoundaryData }

\* Arguments of parseBoundary: every boundary of the density engine, wrapped
\* geometries, and geometries without coordinates
ParseCalls ==
    { [fn |-> "parseBoundary", geoJSON |-> g] :
         g \in Boundaries
               \cup { Feature(Polygon(<< SquareRing(0, 0, 4, 4) >>)),
                      FeatureCollection(<< Feature(Polygon(<< SquareRing(1, 1, 3, 3) >>)),
                                           Feature(MultiPolygon(<< <<SquareRing(0, 0, 4, 4)>> >>)) >>),
                      [type |-> "Polygon"],
                      MultiPolygon(<< >>) } }

\* The unit square [[0,0],[0,1],[1,1],[1,0],[0,0]] (lng, lat), in units of
\* 1e-4 degree
UnitSquare == << <<0, 0>>, <<0, 10000>>, <<10000, 10000>>, <<10000, 0>>, <<0, 0>> >>

\* isPointInPolygon(lat, lng, parseBoundary(geoJSON)): the unit square with
\* (0.5, 0.5) and (2, 2), and positions on a half-unit lattice around small
\* rings (none of them on an edge)
PolygonCalls ==
    { [fn |-> "isPointInPolygon", lat |-> Num(c), lng |-> Num(c),
       geoJSON |-> MultiPolygon(<< <<UnitSquare>> >>)] : c \in {5000, 20000} }
    \cup
    { [fn |-> "isPointInPolygon",
       lat |-> RAdd(Num(TEHRAN_CENTER_LAT), Rat(a, 2)),
       lng |-> RAdd(Num(TEHRAN_CENTER_LNG), Rat(b, 2)),
       geoJSON |-> g] :
         a \in {-1, 1, 3, 5, 7, 9}, b \in {-1, 1, 3, 5, 7, 9},
         g \in { MultiPolygon(<< <<SquareRing(0, 0, 4, 4)>> >>),
                 MultiPolygon(<< << <<V(0, 0), V(4, 0), V(0, 4), V(0, 0)>> >> >>),
                 MultiPolygon(<< << <<V(0, 0), V(4, 0), V(4, 2), V(2, 2), V(2, 4),
                                      V(0, 4), V(0, 0)>> >> >>) } }

\* Rounded arithmetic: the projection as the doubles compute it, with a
\* significand of FlPrecision bits in place of 53

\* The number of bits of a significand
FlPrecision == 10

RECURSIVE Pow2(_)
Pow2(k) == IF k = 0 THEN 1 ELSE 2 * Pow2(k - 1)

\* The exponent e with 2^(FlPrecision-1) <= a / 2^e < 2^FlPrecision, a > 0
RECURSIVE FlExponent(_, _)
FlExponent(a, e) ==
    IF RGe(a, Num(Pow2(FlPrecision))) THEN FlExponent(RDiv(a, Num(2)), e + 1)
    ELSE IF RLt(a, Num(Pow2(FlPrecision - 1))) THEN FlExponent(RMul(a, Num(2)), e - 1)
    ELSE e

\* 2^e as a rational
RPow2(e) == IF e >= 0 THEN Num(Pow2(e)) ELSE Rat(1, Pow2(-e))

\* Round to nearest, ties to even
RoundEven(a) ==
    LET fl   == Floor(a)
        frac == RSub(a, Num(fl))
    IN  IF RGt(frac, Rat(1, 2)) \/ (frac = Rat(1, 2) /\ fl % 2 = 1) THEN fl + 1 ELSE fl

\* The nearest representable number
Fl(r) ==
    IF r.n = 0 THEN r
    ELSE LET a == RAbs(r)
             e == FlExponent(a, 0)
             m == RoundEven(RDiv(a, RPow2(e)))
         IN  RMul(Num(IF r.n < 0 THEN -m ELSE m), RPow2(e))

\* The spacing of the representable numbers at a > 0
FlSpacing(a) == RPow2(FlExponent(a, 0))

\* 111320 metres per degree
MetersPerDegree == 111320

\* The constants of lines 24-25 and Math.cos(TEHRAN_CENTER_LAT * Math.PI / 180),
\* in degrees, as the nearest representable numbers
CenterLatRounded == Fl(Rat(TEHRAN_CENTER_LAT, 10000))

CenterLngRounded == Fl(Rat(TEHRAN_CENTER_LNG, 10000))

CosCenterLatRounded == Fl(Rat(8122, 10000))

\* Lines 27-32, every operation rounded, in degrees and metres
latLngToMetersRounded(lat, lng) ==
    LET latMeters == Fl(RMul(Fl(RSub(lat, CenterLatRounded)), Num(MetersPerDegree)))
        lngMeters == Fl(RMul(Fl(RMul(Fl(RSub(lng, CenterLngRounded)),
                                     Num(MetersPerDegree))),
                             CosCenterLatRounded))
    IN  [x |-> lngMeters, y |-> latMeters]

\* A variant of metersToLatLng that leaves out the reference point
metersToLatLngNoCenter(x, y) ==
    LET lng == Fl(RDiv(x, Fl(RMul(Num(MetersPerDegree), CosCenterLatRounded))))
        lat == Fl(RDiv(y, Num(MetersPerDegree)))
    IN  [lat |-> lat, lng |-> lng]

\* Lines 34-38, every operation rounded
metersToLatLngRounded(x, y) ==
    LET lng == Fl(RAdd(Fl(RDiv(x, Fl(RMul(Num(MetersPerDegree), CosCenterLatRounded)))),
                       CenterLngRounded))
        lat == Fl(RAdd(Fl(RDiv(y, Num(MetersPerDegree))), CenterLatRounded))
    IN  [lat |-> lat, lng |-> lng]

\* Representable positions of the valid extent (35.4 .. 36.0, 51.0 .. 51.8),
\* and representable offsets in metres
ProjectionCalls ==
    { [fn |-> "latLngToMeters", lat |-> Fl(Rat(la, 100)), lng |-> Fl(Rat(ln, 100))] :
        la \in {3540, 3569, 3580, 3600}, ln \in {5100, 5139, 5160, 5180} }
    \cup
    { [fn |-> "metersToLatLng", x |-> Fl(Num(x)), y |-> Fl(Num(y))] :
        x \in {-20000, -1000, 0, 250, 1000, 30000}, y \in {-30000, -500, 0, 1000, 20000} }

InitCalls ==
    /\ call \in NormCalls \cup IdwCalls \cup WorkerMessages \cup RenderCalls
                \cup ParseCalls \cup ProjectionCalls \cup PolygonCalls
    /\ ret = NoValue
    /\ heap = NoValue
    /\ log = NoValue
    /\ app = NoValue
    /\ pc = "idle"
    /\ points = NoValue
    /\ bandwidth = NoValue
    /\ cellSize = NoValue
    /\ boundary = NoValue
    /\ plan = NoValue
    /\ result = NoValue
    /\ normalizedGrid = NoValue

Frame == UNCHANGED <<points, bandwidth, cellSize, boundary, plan, result,
                     normalizedGrid, call,
                     heap, log, app>>

CallNormalizeGrid ==
    /\ pc = "idle" /\ call.fn = "normalizeGrid"
    /\ ret' = normalizeGrid(call.gridData, call.min, call.max, call.newMin, call.newMax)
    /\ pc' = "returned"
    /\ Frame

CallIdw ==
    /\ pc = "idle" /\ call.fn = "idwInterpolate"
    /\ ret' = idwInterpolate(call.lat, call.lng, call.points)
    /\ pc' = "returned"
    /\ Frame

WorkerOnMessage ==
    /\ pc = "idle" /\ call.fn = "onmessage"
    /\ ret' = onmessage(call)
    /\ pc' = "returned"
    /\ Frame

CanvasRender ==
    /\ pc = "idle" /\ call.fn = "render"
    /\ ret' = render(call.data, call.boundaryData)
    /\ pc' = "returned"
    /\ Frame

CallParseBoundary ==
    /\ pc = "idle" /\ call.fn = "parseBoundary"
    /\ ret' = parseBoundary(call.geoJSON)
    /\ pc' = "returned"
    /\ Frame

\* latLngToMeters, then metersToLatLng on its result
CallGeoRoundTrip ==
    /\ pc = "idle" /\ call.fn = "latLngToMeters"
    /\ LET m == latLngToMetersRounded(call.lat, call.lng)
       IN  ret' = [meters |-> m, back |-> metersToLatLngRounded(m.x, m.y)]
    /\ pc' = "returned"
    /\ Frame

\* metersToLatLng, then latLngToMeters on its result
CallMetersRoundTrip ==
    /\ pc = "idle" /\ call.fn = "metersToLatLng"
    /\ LET g == metersToLatLngRounded(call.x, call.y)
       IN  ret' = [geo |-> g, back |-> latLngToMetersRounded(g.lat, g.lng)]
    /\ pc' = "returned"
    /\ Frame

\* isPointInPolygon on the boundary parseBoundary returns
CallIsPointInPolygon ==
    /\ pc = "idle" /\ call.fn = "isPointInPolygon"
    /\ ret' = [inside |-> isPointInPolygon(call.lat, call.lng, parseBoundary(call.geoJSON))]
    /\ pc' = "returned"
    /\ Frame

NextCalls ==
    \/ CallNormalizeGrid \/ CallIdw \/ WorkerOnMessage \/ CanvasRender \/ CallParseBoundary
    \/ CallGeoRoundTrip \/ CallMetersRoundTrip \/ CallIsPointInPolygon

SpecCalls == InitCalls /\ [][NextCalls]_vars

-----------------------------------------------------------------------------
(* Properties of the density engine *)

\* The call has returned a value (it has not thrown)
Returned == pc \in {"computed", "rendered", "empty"}

\* Every ring the GeoJSON of a boundary declares
RECURSIVE DeclaredRings(_)
DeclaredRings(g) ==
    IF g = Null THEN << >>
    ELSE IF g.type = "FeatureCollection" THEN
        Flatten([f \in 1..Len(g.features) |-> DeclaredRings(g.features[f])])
    ELSE IF g.type = "Feature" THEN DeclaredRings(g.geometry)
    ELSE IF ~Has(g, "coordinates") THEN << >>
    ELSE IF g.type = "MultiPolygon" THEN Flatten(g.coordinates)
    ELSE IF g.type = "Polygon" THEN g.coordinates
    ELSE << >>

\* The centre of cell k of the planned grid, converted back to lat/lng
CenterLatLng(k) ==
    LET c == CellCenter(plan, (k - 1) \div plan.gridWidth, (k - 1) % plan.gridWidth)
    IN  metersToLatLng(c.x, c.y)

\* The centre of cell k is inside the boundary as supplied
InsideSupplied(k) ==
    InsideAnyRing(CenterLatLng(k).lat, CenterLatLng(k).lng, DeclaredRings(boundary))

\* The points that survive the filter: lat, lng and weight defined, weight >= 0
Survivors ==
    IF points = Undefined THEN << >>
    ELSE SelectSeq(points.arr,
            LAMBDA q : /\ q.lat # Undefined /\ q.lng # Undefined
                       /\ q.weight # Undefined /\ ~RLt(q.weight, Num(0)))

\* The boundary the engine parsed excludes the centre of every planned cell
AllCellsMasked ==
    /\ plan.parsedBoundary # Null
    /\ \A k \in 1..(plan.gridWidth * plan.gridHeight) :
          ~isPointInPolygon(CenterLatLng(k).lat, CenterLatLng(k).lng, plan.parsedBoundary)

\* C1: in every non-empty grid that calculateWeightedKDE returns, a cell is
\* null exactly when a boundary with rings was supplied and the cell's centre
\* lies outside it; with no boundary no cell is null.
C1_MaskingFollowsBoundary ==
    (Returned /\ Len(result.gridData) > 0) =>
        \A k \in 1..Len(result.gridData) :
            IF boundary = Null THEN result.gridData[k] # Null
            ELSE IF Len(DeclaredRings(boundary)) = 0 THEN TRUE
            ELSE (result.gridData[k] # Null) <=> InsideSupplied(k)

\* C2: every non-null cell lies between min and max, min and max are both
\* attained by a cell, and a grid without any unmasked cell is returned as the
\* empty grid, never as a grid of nulls.
C2_MinMaxAndAllMasked ==
    Returned =>
        LET g        == result.gridData
            unmasked == {k \in 1..Len(g) : g[k] # Null}
        IN  /\ \A k \in unmasked : RLe(result.min, g[k]) /\ RLe(g[k], result.max)
            /\ unmasked # {} => /\ \E k \in unmasked : g[k] = result.min
                                /\ \E k \in unmasked : g[k] = result.max
            /\ unmasked = {} => result = EmptyGrid
            /\ (plan.kind = "grid" /\ AllCellsMasked) => result = EmptyGrid

\* The boundary masked every cell of a planned grid, and the empty grid came back
C2_AllMaskedWitness ==
    /\ pc = "computed"
    /\ plan.kind = "grid"
    /\ plan.gridWidth * plan.gridHeight > 0
    /\ AllCellsMasked
    /\ result = EmptyGrid

\* C3: with points missing or empty, or with no point surviving the filter,
\* the call returns the empty grid and does not throw, whatever the
\* bandwidth, the cell size and the boundary.
C3_NoSurvivorEmptyGrid ==
    (pc # "idle" /\ Len(Survivors) = 0) => result = EmptyGrid

\* Points were passed, none survived, the boundary is one that makes a call
\* with surviving points throw, and the empty grid came back
C3_FilteredOutWitness ==
    /\ pc = "computed"
    /\ points # Undefined
    /\ Len(points.arr) > 0
    /\ Len(Survivors) = 0
    /\ boundary # Null
    /\ boundary.type = "Polygon"
    /\ result = EmptyGrid

\* Some point survives the filter and every surviving point has weight 0
AllSurvivorsZero ==
    /\ Len(Survivors) > 0
    /\ \A i \in 1..Len(Survivors) : Survivors[i].weight = Num(0)

\* C4 as stated: when every surviving point has weight 0 the call yields the
\* empty grid.
C4_ZeroWeightsEmptyGrid ==
    (Returned /\ AllSurvivorsZero) => result = EmptyGrid

\* C4 as the code has it: points of weight 0 are valid points; the call
\* returns the empty grid only when the boundary masks every cell, and
\* otherwise a populated grid of the planned size whose unmasked cells are
\* all 0, with min = max = 0.
C4_ZeroWeightsZeroField ==
    (Returned /\ AllSurvivorsZero) =>
        /\ plan.kind = "grid"
        /\ result = EmptyGrid <=> AllCellsMasked
        /\ result # EmptyGrid =>
              /\ Len(result.gridData) = plan.gridWidth * plan.gridHeight
              /\ result.width = plan.gridWidth /\ result.height = plan.gridHeight
              /\ \A k \in 1..Len(result.gridData) :
                    result.gridData[k] # Null => result.gridData[k] = Num(0)
              /\ result.min = Num(0) /\ result.max = Num(0)
              /\ result.bounds # Null

\* Only points of weight 0, and a populated grid came back
C4_ZeroFieldWitness ==
    /\ pc = "computed"
    /\ AllSurvivorsZero
    /\ Len(result.gridData) > 0
    /\ \E k \in 1..Len(result.gridData) : result.gridData[k] = Num(0)

\* The grid a single pass would allocate: ceil(extentWidth / cellSize) *
\* ceil(extentHeight / cellSize) over the extent of the surviving points or
\* of the boundary
NaiveCells ==
    LET ext == GridExtent(Survivors, bandwidth,
                          IF boundary # Null THEN parseBoundary(boundary) ELSE Null)
    IN  Ceil(RDiv(RSub(ext.maxLng, ext.minLng), cellSize))
        * Ceil(RDiv(RSub(ext.maxLat, ext.minLat), cellSize))

\* C5: when the naive grid exceeds MAX_CELLS, the grid finally returned has
\* width * height <= MAX_CELLS.
C5_CeilingEnforced ==
    (Returned /\ NaiveCells > MAX_CELLS) => result.width * result.height <= MAX_CELLS

\* A populated grid came back from a request above the ceiling, after the
\* first coarsening still left it above the ceiling
C5_CoarsenedWitness ==
    /\ pc = "computed"
    /\ NaiveCells > MAX_CELLS
    /\ plan.depth = 2
    /\ result.width = plan.gridWidth /\ result.height = plan.gridHeight
    /\ result.width * result.height > 0
    /\ RGt(result.cellSize, cellSize)

-----------------------------------------------------------------------------
(* Properties of normalizeGrid *)

NormReturned == pc = "returned" /\ call.fn = "normalizeGrid"

Masked(v) == v = Null \/ v = Undefined

\* C6: every position that holds null or undefined in the input of
\* normalizeGrid holds null in its output, also when min = max, where only
\* the unmasked positions become newMin.
C6_MaskedStayMasked ==
    NormReturned =>
        /\ Len(ret) = Len(call.gridData)
        /\ \A i \in 1..Len(call.gridData) :
              /\ Masked(call.gridData[i]) => ret[i] = Null
              /\ (call.min = call.max /\ ~Masked(call.gridData[i])) => ret[i] = call.newMin

\* The law of normalisation to 0-1, for a call with min < max that has returned
NormalizedTo01 ==
    (/\ NormReturned
     /\ RLt(call.min, call.max)
     /\ call.newMin = Num(0) /\ call.newMax = Num(1))
    => LET g == call.gridData
           unmasked == {i \in 1..Len(g) : ~Masked(g[i])}
       IN  /\ Len(ret) = Len(g)
           /\ \A i \in unmasked :
                 /\ g[i] = call.min => ret[i] = Num(0)
                 /\ g[i] = call.max => ret[i] = Num(1)
                 /\ (RLe(call.min, g[i]) /\ RLe(g[i], call.max))
                       => (RLe(Num(0), ret[i]) /\ RLe(ret[i], Num(1)))
           /\ \A i, j \in unmasked :
                 /\ RLt(g[i], g[j]) => RLt(ret[i], ret[j])
                 /\ g[i] = g[j] => ret[i] = ret[j]

\* C7: for min < max, normalizeGrid(grid, min, max, 0, 1) returns an array of
\* the same length in which min has become 0 and max has become 1, every
\* unmasked value of [min, max] lies in [0, 1] and the order of the unmasked
\* values is kept; the call leaves the input array as it was.
C7_NormalizationLaw ==
    [][NormalizedTo01' /\ (call.fn = "normalizeGrid" => call'.gridData = call.gridData)]_vars

\* A grid holding min, max and a masked cell has been normalised to 0-1
C7_RescaledWitness ==
    /\ NormReturned
    /\ RLt(call.min, call.max)
    /\ call.newMin = Num(0) /\ call.newMax = Num(1)
    /\ Len(call.gridData) = 3
    /\ \E i, j, k \in 1..3 :
          /\ call.gridData[i] = call.min /\ ret[i] = Num(0)
          /\ call.gridData[j] = call.max /\ ret[j] = Num(1)
          /\ call.gridData[k] = Null /\ ret[k] = Null

-----------------------------------------------------------------------------
(* Properties of the IDW estimator and of its rasterisations *)

IdwReturned == pc = "returned" /\ call.fn = "idwInterpolate"

\* Point i of the call lies closer to the query than epsilon, in degrees
Coincides(i) ==
    LET dLat == RSub(call.lat, call.points[i].lat)
        dLng == RSub(call.lng, call.points[i].lng)
    IN  RLt(RAdd(RMul(dLat, dLat), RMul(dLng, dLng)), Num(IdwEpsilon * IdwEpsilon))

\* C8 as stated: the estimator returns the score of a point the query
\* coincides with, whatever the other points and their order.
C8_ExactMatchAnyOrder ==
    IdwReturned =>
        \A i \in 1..Len(call.points) : Coincides(i) => ret = call.points[i].score

\* C8 as the code has it: the estimator returns the score of the first point
\* of the list that the query coincides with; the points listed before it and
\* after it do not matter.
C8_FirstCoincidentPoint ==
    IdwReturned =>
        \A i \in 1..Len(call.points) :
            (Coincides(i) /\ \A h \in 1..(i - 1) : ~Coincides(h))
                => ret = call.points[i].score

\* The query coincides with two points of different scores, listed after a
\* point it does not coincide with, and the score of the first of the two
\* came back
C8_FirstOfTwoWitness ==
    /\ IdwReturned
    /\ Len(call.points) = 3
    /\ ~Coincides(1) /\ Coincides(2) /\ Coincides(3)
    /\ call.points[2].score # call.points[3].score
    /\ ret = call.points[2].score

\* The sample locations of the worker: (resolution + 1)^2 grid nodes
WorkerSamples ==
    LET latStep == RDiv(RSub(call.bounds.north, call.bounds.south), Num(call.resolution))
        lngStep == RDiv(RSub(call.bounds.east, call.bounds.west), Num(call.resolution))
    IN  { [lat |-> RAdd(call.bounds.south, RMul(Num(i), latStep)),
           lng |-> RAdd(call.bounds.west, RMul(Num(j), lngStep))] :
             i, j \in 0..call.resolution }

\* Inside the boundary, where a missing boundary restricts nothing
InsideOrUnrestricted(lat, lng, rings) ==
    Len(rings) = 0 \/ InsideAnyRing(lat, lng, rings)

\* C9: the IDW rasterisations mask like the density engine: a sample location
\* gets its interpolated value exactly when it is inside the boundary (a cell
\* of the worker's result, an opaque pixel of the canvas), and with no
\* boundary every location counts as inside.
C9_IdwMaskingPolicy ==
    /\ (pc = "returned" /\ call.fn = "onmessage" /\ call.type = "compute") =>
          LET cells == ret[Len(ret)].cells
          IN  \A s \in WorkerSamples :
                 InsideOrUnrestricted(s.lat, s.lng, call.boundaryCoords)
                 <=> \E c \in 1..Len(cells) :
                        /\ cells[c].lat = s.lat /\ cells[c].lng = s.lng
                        /\ cells[c].favorability
                              = idwInterpolate(s.lat, s.lng, call.points)
    /\ (pc = "returned" /\ call.fn = "render"
           /\ Len(extractHotspotPoints(call.data)) > 0) =>
          /\ ret # NoOverlay
          /\ \A k \in 1..Len(ret.pixels) :
                InsideOrUnrestricted(ret.pixels[k].lat, ret.pixels[k].lng,
                                     extractBoundaryCoordinates(call.boundaryData))
                <=> ret.pixels[k].alpha > 0

\* C10: with several rings, a location is inside exactly when ray casting
\* answers true for at least one ring of the boundary; here for the density
\* engine, at the centre of every cell of the planned grid.
C10_OrOverAllRings ==
    (pc = "planned" /\ plan.parsedBoundary # Null) =>
        \A k \in 1..(plan.gridWidth * plan.gridHeight) :
            isPointInPolygon(CenterLatLng(k).lat, CenterLatLng(k).lng, plan.parsedBoundary)
            <=> InsideSupplied(k)

\* A boundary was supplied and it declares no ring at all
NoUsableRing == boundary # Null /\ Len(DeclaredRings(boundary)) = 0

\* C11: with a boundary argument that is not null and cannot be parsed into
\* a usable ring, the call does not throw and returns what it returns for
\* the same points, bandwidth and cell size with boundary = null.
C11_UnparseableAsNoBoundary ==
    (pc \in {"computed", "error"} /\ NoUsableRing) =>
        result = calculateWeightedKDE(points, bandwidth, cellSize, Null)

-----------------------------------------------------------------------------
(* Properties of parseBoundary *)

ParseReturned == pc = "returned" /\ call.fn = "parseBoundary"

\* The smallest and the largest coordinate c (1 = lng, 2 = lat) of a ring
RingMin(ring, c) == CHOOSE m \in {ring[i][c] : i \in 1..Len(ring)} :
                        \A i \in 1..Len(ring) : m <= ring[i][c]

RingMax(ring, c) == CHOOSE m \in {ring[i][c] : i \in 1..Len(ring)} :
                        \A i \in 1..Len(ring) : m >= ring[i][c]

\* C12: for a Polygon, a MultiPolygon, a Feature around either and a
\* FeatureCollection (by its first feature) parseBoundary returns a boundary
\* with a finite bounding box and a ring of [lng, lat] pairs of the geometry as
\* coords, the box being the minimum and maximum of the ring's vertices; for
\* null, no features or no coordinates it returns null.
C12_ParseBoundaryShapes ==
    ParseReturned =>
        LET g     == call.geoJSON
            first == IF g # Null /\ g.type = "FeatureCollection" /\ Len(g.features) > 0
                     THEN g.features[1] ELSE g
            rings == DeclaredRings(first)
        IN  /\ (g = Null \/ (g.type = "FeatureCollection" /\ Len(g.features) = 0)
                  \/ (g.type \in {"Polygon", "MultiPolygon"}
                        /\ (~Has(g, "coordinates") \/ Len(g.coordinates) = 0)))
               => ret = Null
            /\ Len(rings) > 0 =>
                  /\ ret # Null
                  /\ IsNum(ret.bbox.minLng) /\ IsNum(ret.bbox.maxLng)
                  /\ IsNum(ret.bbox.minLat) /\ IsNum(ret.bbox.maxLat)
                  /\ \E r \in 1..Len(rings) : ret.coords = rings[r]
                  /\ ret.bbox.minLng = Num(RingMin(ret.coords, 1))
                  /\ ret.bbox.maxLng = Num(RingMax(ret.coords, 1))
                  /\ ret.bbox.minLat = Num(RingMin(ret.coords, 2))
                  /\ ret.bbox.maxLat = Num(RingMax(ret.coords, 2))

-----------------------------------------------------------------------------
(* A session of calls on the caller's objects *)

\* The number of calls of a session
MaxCalls == 3

\* The objects the caller holds before the first call: two arrays of points,
\* a boundary geometry, a grid and an array of IDW samples
InitialHeap ==
    << [kind |-> "points",   value |-> <<Pt(1, 1, 5)>>],
       [kind |-> "points",   value |-> <<Pt(1, 1, 5), Pt(3, 2, 1)>>],
       [kind |-> "boundary", value |-> MultiPolygon(<< <<SquareRing(0, 0, 4, 4)>> >>)],
       [kind |-> "grid",     value |-> <<Null, Num(0), Num(2)>>],
       [kind |-> "samples",  value |-> <<Sample(0, 0, 5), Sample(6, 8, 2)>>] >>

Objects(kind) == {o \in 1..Len(heap) : heap[o].kind = kind}

InitSession ==
    /\ heap = InitialHeap
    /\ log = << >>
    /\ pc = "session"
    /\ points = NoValue
    /\ bandwidth = NoValue
    /\ cellSize = NoValue
    /\ boundary = NoValue
    /\ plan = NoValue
    /\ result = NoValue
    /\ normalizedGrid = NoValue
    /\ call = NoValue
    /\ ret = NoValue
    /\ app = NoValue

SessionFrame == UNCHANGED <<points, bandwidth, cellSize, boundary, pc, plan, result,
                            normalizedGrid, call, ret, app>>

\* calculateWeightedKDE(points, bandwidth, cellSize, boundary) on objects of
\* the heap, lines 174-250; b = 0 passes null
SessionPlanGrid ==
    /\ pc = "session"
    /\ Len(log) < MaxCalls
    /\ \E p \in Objects("points"), b \in Objects("boundary") \cup {0}, cs \in CellSizes :
          LET bnd == IF b = 0 THEN Null ELSE heap[b].value
          IN  /\ call' = [fn |-> "calculateWeightedKDE", points |-> p, boundary |-> b,
                          bandwidth |-> Num(5), cellSize |-> cs]
              /\ plan' = KDEPlan([arr |-> heap[p].value], Num(5), cs, bnd, 0)
    /\ pc' = "planned"
    /\ UNCHANGED <<points, bandwidth, cellSize, boundary, result, normalizedGrid, ret,
                   heap, log, app>>

\* calculateWeightedKDE, lines 252-334.  gridData is new Array(...) (line 253)
\* or the literal [] of an empty result: a new object either way.
SessionRasterize ==
    /\ pc = "planned"
    /\ result' = IF plan.kind = "empty" THEN EmptyGrid
                 ELSE IF plan.kind = "throw" THEN RangeError
                 ELSE KDEReturn(plan, RasterizeGrid(plan, call.bandwidth))
    /\ heap' = IF plan.kind = "throw" THEN heap
               ELSE Append(heap, [kind |-> "grid", value |-> result'.gridData])
    /\ log' = Append(log, [fn |-> "calculateWeightedKDE",
                           args |-> <<heap[call.points].value, call.bandwidth, call.cellSize,
                                      IF call.boundary = 0 THEN Null
                                      ELSE heap[call.boundary].value>>,
                           argIds |-> {call.points, call.boundary} \ {0},
                           ret |-> result',
                           retId |-> IF plan.kind = "throw" THEN 0 ELSE Len(heap) + 1])
    /\ pc' = "session"
    /\ UNCHANGED <<points, bandwidth, cellSize, boundary, plan, normalizedGrid, call, ret,
                   app>>

\* A variant of SessionNormalize that rescales the grid in place
SessionNormalizeInPlace ==
    /\ pc = "session"
    /\ Len(log) < MaxCalls
    /\ \E g \in Objects("grid") :
          LET r == normalizeGrid(heap[g].value, Num(0), Num(2), Num(0), Num(1))
          IN  /\ heap' = [heap EXCEPT ![g] = [kind |-> "grid", value |-> r]]
              /\ log' = Append(log, [fn |-> "normalizeGrid",
                                     args |-> <<heap[g].value, Num(0), Num(2), Num(0), Num(1)>>,
                                     argIds |-> {g},
                                     ret |-> r, retId |-> g])
    /\ SessionFrame

\* normalizeGrid(gridData, 0, 2, 0, 1) on a grid of the heap; gridData.map
\* (lines 64 and 66) returns a new array.
SessionNormalize ==
    /\ pc = "session"
    /\ Len(log) < MaxCalls
    /\ \E g \in Objects("grid") :
          LET r == normalizeGrid(heap[g].value, Num(0), Num(2), Num(0), Num(1))
          IN  /\ heap' = Append(heap, [kind |-> "grid", value |-> r])
              /\ log' = Append(log, [fn |-> "normalizeGrid",
                                     args |-> <<heap[g].value, Num(0), Num(2), Num(0), Num(1)>>,
                                     argIds |-> {g},
                                     ret |-> r, retId |-> Len(heap) + 1])
    /\ SessionFrame

\* idwInterpolate(lat, lng, points) on samples of the heap; it returns a number
SessionIdw ==
    /\ pc = "session"
    /\ Len(log) < MaxCalls
    /\ \E s \in Objects("samples"), q \in {Sample(0, 0, 0), Sample(2, 2, 0)} :
          /\ heap' = heap
          /\ log' = Append(log, [fn |-> "idwInterpolate",
                                 args |-> <<q.lat, q.lng, heap[s].value>>,
                                 argIds |-> {s},
                                 ret |-> idwInterpolate(q.lat, q.lng, heap[s].value),
                                 retId |-> 0])
    /\ SessionFrame

NextSession == SessionPlanGrid \/ SessionRasterize \/ SessionNormalize \/ SessionIdw

SpecSession == InitSession /\ [][NextSession]_vars

CallKeepsInputs ==
    /\ \A o \in 1..Len(heap) : heap'[o] = heap[o]
    /\ (Len(log') > Len(log) /\ log'[Len(log')].retId # 0) =>
          LET e == log'[Len(log')]
          IN  /\ e.retId \notin 1..Len(heap)
              /\ e.retId \notin e.argIds
              /\ heap'[e.retId].kind = "grid"

-----------------------------------------------------------------------------
(* Properties of the returned bounds *)

\* A grid of cells was returned
GridReturned ==
    /\ pc \in {"computed", "rendered"}
    /\ plan # NoValue /\ plan.kind = "grid"
    /\ result # EmptyGrid

\* The corner of the last cell, in metres: the cells start at (minLng, minLat)
\* and are cellSize wide (lines 268-275)
CoveredCorner ==
    [x |-> RAdd(plan.ext.minLng, RMul(Num(plan.gridWidth), plan.cellSize)),
     y |-> RAdd(plan.ext.minLat, RMul(Num(plan.gridHeight), plan.cellSize))]

\* Where a renderer that divides the bounds into width x height cells puts
\* the centre of cell k
RenderedCenter(k) ==
    LET row == (k - 1) \div result.width
        col == (k - 1) % result.width
        b   == result.bounds
    IN  [lat |-> RAdd(b.south, RDiv(RMul(Rat(2 * row + 1, 2), RSub(b.north, b.south)),
                                    Num(result.height))),
         lng |-> RAdd(b.west, RDiv(RMul(Rat(2 * col + 1, 2), RSub(b.east, b.west)),
                                   Num(result.width)))]

\* C15: the bounds of a non-empty grid are the rectangle its cells cover:
\* south/west is the reprojected (minX, minY), north/east the reprojected
\* (minX + width*cellSize, minY + height*cellSize), and every cell centre lies
\* inside the bounds where a renderer derives it from width, height and bounds.
C15_BoundsCoverGrid ==
    GridReturned =>
        LET sw == metersToLatLng(plan.ext.minLng, plan.ext.minLat)
            ne == metersToLatLng(CoveredCorner.x, CoveredCorner.y)
            b  == result.bounds
        IN  /\ b.south = sw.lat /\ b.west = sw.lng
            /\ b.north = ne.lat /\ b.east = ne.lng
            /\ \A k \in 1..Len(result.gridData) :
                  /\ RLe(b.south, CenterLatLng(k).lat) /\ RLe(CenterLatLng(k).lat, b.north)
                  /\ RLe(b.west, CenterLatLng(k).lng) /\ RLe(CenterLatLng(k).lng, b.east)
                  /\ CenterLatLng(k) = RenderedCenter(k)

-----------------------------------------------------------------------------
(* The application: App.jsx (React) and main.js, map.js, popup.js (MapLibre) *)

\* The number of votes stored in a run
MaxVotes == 2

\* /tehran_bound.geojson as served: the boundary, or the boundary followed by
\* a feature without geometry
TehranBoundary == FeatureCollection(<< Feature(MultiPolygon(<< <<SquareRing(0, 0, 4, 4)>> >>)) >>)

BoundaryFiles ==
    { TehranBoundary,
      FeatureCollection(<< Feature(MultiPolygon(<< <<SquareRing(0, 0, 4, 4)>> >>)),
                           Feature(Null) >>) }

\* Clicked locations: one inside the boundary, one outside
Locations == { [lng |-> TEHRAN_CENTER_LNG + 2, lat |-> TEHRAN_CENTER_LAT + 2],
               [lng |-> TEHRAN_CENTER_LNG + 6, lat |-> TEHRAN_CENTER_LAT + 6] }

\* Scores the vote form offers (0-5)
Scores == {0, 1, 5}

\* a || b
OrElse(a, b) == IF a = Undefined \/ a = Null \/ a = Num(0) THEN b ELSE a

\* @turf/boolean-point-in-polygon on a feature: getGeom(polygon).type throws
\* for a feature without geometry
BooleanPointInPolygonThrows(feature) == feature.geometry = Null

booleanPointInPolygon(loc, feature) ==
    InsideAnyRing(Num(loc.lat), Num(loc.lng), FeatureRings(feature))

\* App.jsx isPointInBoundary, lines 144-163
RECURSIVE AppBoundaryLoop(_, _, _)
AppBoundaryLoop(features, i, loc) ==
    IF i > Len(features) THEN FALSE
    ELSE IF BooleanPointInPolygonThrows(features[i]) THEN TRUE   \* catch: allow on error
    ELSE IF booleanPointInPolygon(loc, features[i]) THEN TRUE
    ELSE AppBoundaryLoop(features, i + 1, loc)

AppIsPointInBoundary(boundaryData, loc) ==
    IF boundaryData = Null \/ ~Has(boundaryData, "features") THEN TRUE
    ELSE IF Len(boundaryData.features) = 0 THEN TRUE
    ELSE AppBoundaryLoop(boundaryData.features, 1, loc)

\* map/boundary.js isPointInBoundary, lines 109-119; "throws" when turf throws
MapIsPointInBoundary(boundaryLoaded, boundaryPolygon, loc) ==
    IF ~boundaryLoaded \/ boundaryPolygon = Null \/ boundaryPolygon = Undefined THEN "false"
    ELSE IF BooleanPointInPolygonThrows(boundaryPolygon) THEN "throws"
    ELSE IF booleanPointInPolygon(loc, boundaryPolygon) THEN "true" ELSE "false"

\* votesToGeoJSON, lines 179-231, of rows whose geom parses to [lng, lat]
votesToGeoJSON(rows) ==
    FeatureCollection([r \in 1..Len(rows) |->
        [type |-> "Feature",
         geometry |-> [type |-> "Point", coordinates |-> <<rows[r].lng, rows[r].lat>>],
         properties |-> [score |-> Num(rows[r].score)]]])

\* TehranMap.jsx extractHotspotPoints, lines 27-37
TehranMapExtractHotspotPoints(data) ==
    IF data = Null \/ ~Has(data, "features") THEN << >>
    ELSE IF Len(data.features) = 0 THEN << >>
    ELSE [f \in 1..Len(data.features) |->
            [lat |-> Num(data.features[f].geometry.coordinates[2]),
             lng |-> Num(data.features[f].geometry.coordinates[1]),
             favorability |-> OrElse(data.features[f].properties.score, Num(0))]]

\* HotspotLayer.jsx weightedPoints, lines 92-98
weightedPoints(votes) ==
    [v \in 1..Len(votes) |->
        [lat |-> votes[v].lat, lng |-> votes[v].lng,
         weight |-> OrElse(votes[v].favorability, Num(1))]]

InitApp ==
    /\ app \in { [ui |-> u, loadState |-> "loading", boundaryData |-> Null,
                  isSelectionMode |-> FALSE, showModal |-> FALSE,
                  selectedLocation |-> Null, status |-> "none",
                  hotspotData |-> FeatureCollection(<< >>), voteCount |-> 0,
                  db |-> << >>, newVote |-> Null, pendingFetch |-> FALSE,
                  kdePoints |-> << >>] : u \in {"react", "maplibre"} }
    /\ pc = "app"
    /\ points = NoValue
    /\ bandwidth = NoValue
    /\ cellSize = NoValue
    /\ boundary = NoValue
    /\ plan = NoValue
    /\ result = NoValue
    /\ normalizedGrid = NoValue
    /\ call = NoValue
    /\ ret = NoValue
    /\ heap = NoValue
    /\ log = NoValue

AppFrame == UNCHANGED <<points, bandwidth, cellSize, boundary, pc, plan, result,
                        normalizedGrid, call, ret, heap, log>>

\* The fetch of the boundary file completes: App.jsx lines 49-70 keep the
\* whole collection, boundary.js lines 19-46 keep features[0]
LoadBoundary ==
    /\ app.loadState = "loading"
    /\ \E file \in BoundaryFiles, ok \in BOOLEAN :
          app' = IF ok
                 THEN [app EXCEPT !.loadState = "loaded",
                                  !.boundaryData = IF app.ui = "react" THEN file
                                                   ELSE file.features[1]]
                 ELSE [app EXCEPT !.loadState = "failed",
                                  !.status = IF app.ui = "react" THEN "error" ELSE @]
    /\ AppFrame

\* App.jsx handleSelectionToggle, lines 256-268 / the selection-mode control
ToggleSelection ==
    /\ app' = [app EXCEPT !.isSelectionMode = ~@,
                          !.status = IF app.ui # "react" THEN @
                                     ELSE IF ~app.isSelectionMode THEN "info" ELSE "none"]
    /\ AppFrame

\* App.jsx handleModalClose, lines 271-276 / popup.js closePopup
HandleModalClose ==
    /\ app.showModal
    /\ app' = [app EXCEPT !.showModal = FALSE, !.selectedLocation = Null]
    /\ AppFrame

\* App.jsx handleMapClick, lines 166-191
HandleMapClick ==
    /\ app.ui = "react"
    /\ app.isSelectionMode
    /\ \E loc \in Locations :
          app' = IF ~AppIsPointInBoundary(app.boundaryData, loc)
                 THEN [app EXCEPT !.status = "warning"]
                 ELSE [app EXCEPT !.selectedLocation = loc, !.showModal = TRUE,
                                  !.isSelectionMode = FALSE]
    /\ AppFrame

\* map click handler, lines 257-281, and showVotePopup
MapClickHandler ==
    /\ app.ui = "maplibre"
    /\ app.isSelectionMode
    /\ \E loc \in Locations :
          LET inside == MapIsPointInBoundary(app.loadState = "loaded", app.boundaryData, loc)
          IN  app' = IF inside = "throws" THEN app
                     ELSE IF inside = "false" THEN [app EXCEPT !.status = "warning"]
                     ELSE [app EXCEPT !.selectedLocation = loc, !.showModal = TRUE]
    /\ AppFrame

\* App.jsx handleVoteSubmit, lines 194-253, with submitVote (insert, then
\* fetchAllVotes, newest first); votes is null when the re-fetch failed
HandleVoteSubmit ==
    /\ app.ui = "react"
    /\ app.showModal
    /\ Len(app.db) < MaxVotes
    /\ \E score \in Scores, insertOk \in BOOLEAN, fetchOk \in BOOLEAN :
          LET vote  == [lng |-> app.selectedLocation.lng, lat |-> app.selectedLocation.lat,
                        score |-> score]
              rows  == <<vote>> \o app.db
              votes == IF fetchOk THEN votesToGeoJSON(rows) ELSE Null
          IN  app' = IF ~insertOk THEN [app EXCEPT !.status = "error"]
                     ELSE [app EXCEPT
                             !.db = rows,
                             !.hotspotData = IF votes # Null THEN votes ELSE @,
                             !.voteCount = IF votes # Null THEN Len(votes.features) ELSE @,
                             !.status = "success",
                             !.showModal = FALSE,
                             !.selectedLocation = Null,
                             !.newVote = vote]
    /\ AppFrame

\* popup.js handleVoteSubmission, lines 194-229, and the voteSubmitted
\* listener of main.js, lines 93-102: updateHotspots runs in the same task
\* when votes came back, otherwise loadInitialVotes is started
HandleVoteSubmission ==
    /\ app.ui = "maplibre"
    /\ app.showModal
    /\ Len(app.db) < MaxVotes
    /\ \E score \in Scores, insertOk \in BOOLEAN, fetchOk \in BOOLEAN :
          LET vote  == [lng |-> app.selectedLocation.lng, lat |-> app.selectedLocation.lat,
                        score |-> score]
              rows  == <<vote>> \o app.db
              votes == IF fetchOk THEN votesToGeoJSON(rows) ELSE Null
          IN  app' = IF ~insertOk THEN [app EXCEPT !.status = "error"]
                     ELSE [app EXCEPT
                             !.db = rows,
                             !.status = "success",
                             !.showModal = FALSE,
                             !.isSelectionMode = FALSE,
                             !.hotspotData = IF votes # Null THEN votes ELSE @,
                             !.voteCount = IF votes # Null THEN Len(votes.features) ELSE @,
                             !.pendingFetch = (votes = Null),
                             !.newVote = vote]
    /\ AppFrame

\* main.js loadInitialVotes, lines 74-86, as the fallback of the listener
LoadInitialVotes ==
    /\ app.pendingFetch
    /\ \E fetchOk \in BOOLEAN :
          app' = IF fetchOk
                 THEN [app EXCEPT !.hotspotData = votesToGeoJSON(app.db),
                                  !.voteCount = Len(app.db),
                                  !.pendingFetch = FALSE]
                 ELSE [app EXCEPT !.pendingFetch = FALSE]
    /\ AppFrame

\* setTimeout(..., 3000): the status message is hidden
ClearStatus ==
    /\ app.status # "none"
    /\ app' = [app EXCEPT !.status = "none"]
    /\ AppFrame

\* TehranMap renders HotspotLayer when votes.length > 0 (line 318); the layer
\* hands weightedPoints() to calculateWeightedKDE
RenderHotspotLayer ==
    /\ app.ui = "react"
    /\ Len(TehranMapExtractHotspotPoints(app.hotspotData)) > 0
    /\ app' = [app EXCEPT !.kdePoints =
                   weightedPoints(TehranMapExtractHotspotPoints(app.hotspotData))]
    /\ AppFrame

NextApp ==
    \/ LoadBoundary
    \/ ToggleSelection
    \/ HandleModalClose
    \/ HandleMapClick
    \/ MapClickHandler
    \/ HandleVoteSubmit
    \/ HandleVoteSubmission
    \/ LoadInitialVotes
    \/ ClearStatus
    \/ RenderHotspotLayer

SpecApp == InitApp /\ [][NextApp]_vars

\* The clicked location is inside the boundary polygon of Tehran
InTehran(loc) == booleanPointInPolygon(loc, TehranBoundary.features[1])

\* C16: the vote form is open, and a vote stored, only for a location inside
\* the boundary polygon, also while the boundary is loading, after its load
\* failed, and when the point-in-polygon check raised an error.
C16_VotesInsideBoundary ==
    pc = "app" =>
        /\ app.showModal => InTehran(app.selectedLocation)
        /\ \A v \in 1..Len(app.db) : InTehran(app.db[v])


\* The features of the hotspot data that show a vote
ShowsVote(data, vote) ==
    \E f \in 1..Len(data.features) :
        /\ data.features[f].geometry.coordinates = <<vote.lng, vote.lat>>
        /\ data.features[f].properties.score = Num(vote.score)

\* C17: while the success message of a submission is shown, the hotspot data
\* and the vote count already are those of a vote set that contains the new
\* vote, also when the re-fetch that follows the insert failed.
C17_HotspotUpdatedOnSuccess ==
    (pc = "app" /\ app.status = "success") =>
        /\ ShowsVote(app.hotspotData, app.newVote)
        /\ Len(app.hotspotData.features) = Len(app.db)
        /\ app.voteCount = Len(app.db)

\* C18: every weighted point handed to calculateWeightedKDE has the score of
\* its vote as weight; a vote with score 0 has weight 0.
C18_WeightIsScore ==
    pc = "app" =>
        \A v \in 1..Len(app.kdePoints) :
            \E f \in 1..Len(app.db) :
                /\ app.kdePoints[v].lat = Num(app.db[f].lat)
                /\ app.kdePoints[v].lng = Num(app.db[f].lng)
                /\ app.kdePoints[v].weight = Num(app.db[f].score)

-----------------------------------------------------------------------------
(* Properties of the density of a single point *)

\* One point with positive weight survived the filter, no boundary was given,
\* and a grid was returned
SinglePointGrid ==
    /\ GridReturned
    /\ boundary = Null
    /\ Len(Survivors) = 1
    /\ RGt(Survivors[1].weight, Num(0))

\* The squared distance in metres from the centre of cell k to the point
CenterDist2(k) ==
    LET c  == CellCenter(plan, (k - 1) \div plan.gridWidth, (k - 1) % plan.gridWidth)
        p  == latLngToMeters(Survivors[1].lat, Survivors[1].lng)
        dx == RSub(c.x, p.x)
        dy == RSub(c.y, p.y)
    IN  RAdd(RMul(dx, dx), RMul(dy, dy))

\* C19: for a single point with positive weight and no boundary, a cell with
\* the maximum density is a cell whose centre is nearest to the point, and of
\* two cells the one whose centre is strictly farther has strictly smaller
\* density.
C19_SinglePointMonotone ==
    SinglePointGrid =>
        LET g == result.gridData
        IN  /\ \A k \in 1..Len(g) :
                  g[k] = result.max => \A j \in 1..Len(g) : RLe(CenterDist2(k), CenterDist2(j))
            /\ \A j, k \in 1..Len(g) :
                  RGt(CenterDist2(j), CenterDist2(k)) => RLt(g[j], g[k])

\* A grid of a single point with cells at three different distances or more
C19_ThreeDistancesWitness ==
    /\ SinglePointGrid
    /\ \E i, j, k \in 1..Len(result.gridData) :
          /\ RLt(CenterDist2(i), CenterDist2(j))
          /\ RLt(CenterDist2(j), CenterDist2(k))
          /\ result.gridData[i] = result.max
          /\ RLt(result.gridData[k], result.gridData[j])

-----------------------------------------------------------------------------
(* Properties of the projection *)

GeoRoundTripReturned == pc = "returned" /\ call.fn = "latLngToMeters"

MetersRoundTripReturned == pc = "returned" /\ call.fn = "metersToLatLng"

\* One spacing of the representable degrees at the reference point, in metres
MetersTolerance == RMul(FlSpacing(CenterLngRounded), Num(MetersPerDegree))

\* The round trips as stated: degrees come back (within 1e-9 degrees), and
\* metres come back as (x, y)
C20_RoundTripExact ==
    /\ GeoRoundTripReturned => (ret.back.lat = call.lat /\ ret.back.lng = call.lng)
    /\ MetersRoundTripReturned => (ret.back.x = call.x /\ ret.back.y = call.y)

\* C20: metersToLatLng after latLngToMeters returns the input position of the
\* valid extent (within 1e-9 degrees; here exactly), and latLngToMeters after
\* metersToLatLng returns (x, y) within one spacing of the representable
\* degrees near the reference point, taken in metres; both use the same
\* reference point.
C20_RoundTripWithinRounding ==
    /\ GeoRoundTripReturned => (ret.back.lat = call.lat /\ ret.back.lng = call.lng)
    /\ MetersRoundTripReturned =>
          /\ RLe(RAbs(RSub(ret.back.x, call.x)), MetersTolerance)
          /\ RLe(RAbs(RSub(ret.back.y, call.y)), MetersTolerance)

\* Metres that do not come back exactly
C20_RoundedMetersWitness ==
    /\ MetersRoundTripReturned
    /\ ret.back.x # call.x
    /\ ret.geo.lng # CenterLngRounded
    /\ RLe(RAbs(RSub(ret.back.x, call.x)), MetersTolerance)

-----------------------------------------------------------------------------
(* Properties of the coarsening *)

\* A grid was planned, after any restarts
GridPlanned == pc \in {"planned", "computed"} /\ plan # NoValue /\ plan.kind = "grid"

-----------------------------------------------------------------------------
(* Properties of the rings of a parsed boundary *)

\* The rings a parsed boundary holds: coords is one ring for a MultiPolygon
\* (line 101) and the coordinates array as given otherwise
ParsedRings(b) == IF b.isMulti THEN <<b.coords>> ELSE b.coords

\* The geometry parseBoundary looks at: the first feature of a collection
ParsedGeometry(g) ==
    IF g # Null /\ g.type = "FeatureCollection" /\ Len(g.features) > 0
    THEN g.features[1] ELSE g

\* C22: the parsed boundary holds every ring of every polygon of the input
\* geometry, in order, and its bounding box covers every one of them.
C22_EveryRingKept ==
    (ParseReturned /\ Len(DeclaredRings(ParsedGeometry(call.geoJSON))) > 0) =>
        LET rings == DeclaredRings(ParsedGeometry(call.geoJSON))
        IN  /\ ret # Null
            /\ ParsedRings(ret) = rings
            /\ \A r \in 1..Len(rings) : \A i \in 1..Len(rings[r]) :
                  /\ ~JsLt(Num(rings[r][i][1]), ret.bbox.minLng)
                  /\ ~JsGt(Num(rings[r][i][1]), ret.bbox.maxLng)
                  /\ ~JsLt(Num(rings[r][i][2]), ret.bbox.minLat)
                  /\ ~JsGt(Num(rings[r][i][2]), ret.bbox.maxLat)

-----------------------------------------------------------------------------
(* Properties of isPointInPolygon *)

PolygonReturned == pc = "returned" /\ call.fn = "isPointInPolygon"

\* The ring of the call and its box
CallRing == call.geoJSON.coordinates[1][1]

\* Edge i of the ring runs from vertex i - 1 (the last vertex for i = 1) to
\* vertex i; it is crossed by the ray from (lat, lng) to the east when its ends
\* lie on different sides of lat and it meets the parallel of lat east of lng
CrossedEdges ==
    LET n == Len(CallRing)
    IN  { i \in 1..n :
            LET a  == CallRing[IF i = 1 THEN n ELSE i - 1]
                b  == CallRing[i]
                dy == RSub(Num(b[2]), Num(a[2]))
            IN  /\ ~BelowDegenerate(RAbs(dy))
                /\ RGt(Num(a[2]), call.lat) # RGt(Num(b[2]), call.lat)
                /\ RLt(RMul(RSub(call.lng, Num(a[1])), RAbs(dy)),
                       RMul(RMul(RSub(Num(b[1]), Num(a[1])), RSub(call.lat, Num(a[2]))),
                            Num(RSign(dy)))) }

OutsideBox ==
    \/ RLt(call.lng, Num(RingMin(CallRing, 1))) \/ RGt(call.lng, Num(RingMax(CallRing, 1)))
    \/ RLt(call.lat, Num(RingMin(CallRing, 2))) \/ RGt(call.lat, Num(RingMax(CallRing, 2)))

\* C23: isPointInPolygon answers false outside the bounding box of the ring,
\* and within it the even-odd count of the edges the ray crosses, edges with a
\* latitude difference below 1e-10 left out; (0.5, 0.5) is inside the unit
\* square and (2, 2) is outside.
C23_BoxThenEvenOdd ==
    PolygonReturned =>
        /\ OutsideBox => ~ret.inside
        /\ ret.inside = (Cardinality(CrossedEdges) % 2 = 1)
        /\ CallRing = UnitSquare => (ret.inside = (call.lat = Num(5000)))

\* Inside an L-shaped ring, in the arm a ray leaves through one edge after
\* passing the notch, and the unit square at (0.5, 0.5)
C23_InsideWitness ==
    /\ PolygonReturned
    /\ ret.inside
    /\ ~OutsideBox
    /\ (CallRing = UnitSquare \/ Len(CallRing) = 7)

-----------------------------------------------------------------------------
(* The extent of the grid *)

\* The vertices of every ring the boundary declares
BoundaryVertices ==
    LET rings == DeclaredRings(boundary)
    IN  UNION { { rings[r][i] : i \in 1..Len(rings[r]) } : r \in 1..Len(rings) }

\* The smallest and the largest element of a non-empty set of rationals
RMinOf(S) == CHOOSE m \in S : \A x \in S : RLe(m, x)

RMaxOf(S) == CHOOSE m \in S : \A x \in S : RGe(m, x)

\* The bounding box of the boundary, projected; without a boundary the
\* bounding box of the projected survivors, 2 * bandwidth wider on every side
ExtentOfBoundaryOrPoints ==
    IF plan.parsedBoundary # Null THEN
        LET lngs == { Num(v[1]) : v \in BoundaryVertices }
            lats == { Num(v[2]) : v \in BoundaryVertices }
            sw   == latLngToMeters(RMinOf(lats), RMinOf(lngs))
            ne   == latLngToMeters(RMaxOf(lats), RMaxOf(lngs))
        IN  [minLat |-> sw.y, maxLat |-> ne.y, minLng |-> sw.x, maxLng |-> ne.x]
    ELSE
        LET xs  == { latLngToMeters(Survivors[i].lat, Survivors[i].lng).x : i \in 1..Len(Survivors) }
            ys  == { latLngToMeters(Survivors[i].lat, Survivors[i].lng).y : i \in 1..Len(Survivors) }
            pad == RMul(Num(2), bandwidth)
        IN  [minLat |-> RSub(RMinOf(ys), pad), maxLat |-> RAdd(RMaxOf(ys), pad),
             minLng |-> RSub(RMinOf(xs), pad), maxLng |-> RAdd(RMaxOf(xs), pad)]

\* C24: the extent of the grid is the bounding box of the boundary, unpadded,
\* when a boundary was parsed, and otherwise the bounding box of the valid
\* points widened by 2 * bandwidth on every side; with a boundary the points
\* do not enter the extent.
C24_ExtentOfBoundaryOrPoints ==
    GridPlanned => plan.ext = ExtentOfBoundaryOrPoints

-----------------------------------------------------------------------------
(* The dimensions and the layout of the grid *)

\* The survivors in metres, as line 256 maps them
SurvivorsInMeters ==
    [i \in 1..Len(Survivors) |->
        [x |-> latLngToMeters(Survivors[i].lat, Survivors[i].lng).x,
         y |-> latLngToMeters(Survivors[i].lat, Survivors[i].lng).y,
         weight |-> Survivors[i].weight]]

\* C25: in every non-empty result width = ceil((maxX - minX) / cellSize) and
\* height = ceil((maxY - minY) / cellSize) for the projected extent and the
\* cell size of the result, both are positive, gridData has width * height
\* entries and the value of cell (row, col) is at index row * width + col.
C25_DimensionsAndRowMajor ==
    GridReturned =>
        LET sw == latLngToMeters(result.bounds.south, result.bounds.west)
            ne == latLngToMeters(result.bounds.north, result.bounds.east)
            w  == result.width
            h  == result.height
        IN  /\ w = Ceil(RDiv(RSub(ne.x, sw.x), result.cellSize))
            /\ h = Ceil(RDiv(RSub(ne.y, sw.y), result.cellSize))
            /\ w > 0 /\ h > 0
            /\ Len(result.gridData) = w * h
            /\ \A row \in 0..(h - 1) : \A col \in 0..(w - 1) :
                  result.gridData[row * w + col + 1]
                      = CellValue(plan, SurvivorsInMeters, bandwidth, row, col)

\* A grid that is not square, whose first row and first column differ
C25_OblongGridWitness ==
    /\ GridReturned
    /\ result.width # result.height
    /\ result.width > 1 /\ result.height > 1
    /\ result.gridData[2] # result.gridData[result.width + 1]


\* C26: the grid is stored with the top row at the north: the cells of row 0
\* are those of the northernmost band of the extent, and the latitude of the
\* cell centres decreases as the row index increases.
C26_TopRowNorth ==
    GridReturned =>
        LET w     == result.width
            north == latLngToMeters(result.bounds.north, result.bounds.west).y
        IN  /\ \A k \in 1..w :
                  LET y == latLngToMeters(CenterLatLng(k).lat, CenterLatLng(k).lng).y
                  IN  RLe(RSub(north, y), result.cellSize)
            /\ \A k, l \in 1..Len(result.gridData) :
                  (k - 1) \div w < (l - 1) \div w
                      => RGt(CenterLatLng(k).lat, CenterLatLng(l).lat)

-----------------------------------------------------------------------------
(* The messages of the favoribility worker *)

WorkerReturned == pc = "returned" /\ call.fn = "onmessage"

\* C27: the worker answers every 'compute' message, for every resolution >= 1,
\* with one or more 'progress' messages followed by exactly one 'complete'
\* message, the last; the percentages are non-decreasing within 0..100; a
\* message of another type gets no reply.
C27_ProgressThenComplete ==
    WorkerReturned =>
        IF call.type = "compute" THEN
            /\ Len(ret) >= 2
            /\ ret[Len(ret)].type = "complete"
            /\ \A k \in 1..(Len(ret) - 1) :
                  /\ ret[k].type = "progress"
                  /\ ret[k].progress \in 0..100
                  /\ k > 1 => ret[k - 1].progress <= ret[k].progress
        ELSE ret = << >>

-----------------------------------------------------------------------------
(* The vote form: VoteModal.handleSubmit (React) and the submit listener of
   setupFormSubmission (popup.js) *)

NaN == [nan |-> TRUE]

\* Strings are sequences of characters
DigitChars == {"0", "1", "2", "3", "4", "5", "6", "7", "8", "9"}

DigitValue(c) == CHOOSE v \in 0..9 : <<"0", "1", "2", "3", "4", "5", "6", "7", "8", "9">>[v + 1] = c

\* String.prototype.trim, for the blank
RECURSIVE TrimStart(_)
TrimStart(s) == IF Len(s) > 0 /\ s[1] = " " THEN TrimStart(Tail(s)) ELSE s

RECURSIVE TrimEnd(_)
TrimEnd(s) == IF Len(s) > 0 /\ s[Len(s)] = " " THEN TrimEnd(SubSeq(s, 1, Len(s) - 1)) ELSE s

Trim(s) == TrimEnd(TrimStart(s))

\* The number of leading digits of s
RECURSIVE DigitPrefix(_)
DigitPrefix(s) == IF Len(s) > 0 /\ s[1] \in DigitChars THEN 1 + DigitPrefix(Tail(s)) ELSE 0

\* The value of a string of digits
RECURSIVE DigitsValue(_)
DigitsValue(s) ==
    IF Len(s) = 0 THEN 0 ELSE 10 * DigitsValue(SubSeq(s, 1, Len(s) - 1)) + DigitValue(s[Len(s)])

RECURSIVE Pow10(_)
Pow10(k) == IF k = 0 THEN 1 ELSE 10 * Pow10(k - 1)

\* Number(string) for the decimal literals [-]digits[.digits]: the whole
\* trimmed string has to be a literal, the empty string is 0
NumberOfString(str) ==
    LET s    == Trim(str)
        neg  == Len(s) > 0 /\ s[1] = "-"
        body == IF neg THEN Tail(s) ELSE s
        k    == DigitPrefix(body)
        int  == DigitsValue(SubSeq(body, 1, k))
        frac == SubSeq(body, k + 2, Len(body))
        sign == IF neg THEN -1 ELSE 1
    IN  IF Len(s) = 0 THEN Num(0)
        ELSE IF k = 0 THEN NaN
        ELSE IF k = Len(body) THEN Num(sign * int)
        ELSE IF body[k + 1] = "." /\ Len(frac) > 0 /\ DigitPrefix(frac) = Len(frac)
             THEN Rat(sign * (int * Pow10(Len(frac)) + DigitsValue(frac)), Pow10(Len(frac)))
        ELSE NaN

\* parseInt(string, 10): the longest prefix [-]digits of the trimmed string,
\* NaN when it has no digit
parseInt(str) ==
    LET s    == Trim(str)
        neg  == Len(s) > 0 /\ s[1] = "-"
        body == IF neg THEN Tail(s) ELSE s
        k    == DigitPrefix(body)
    IN  IF k = 0 THEN NaN
        ELSE Num((IF neg THEN -1 ELSE 1) * DigitsValue(SubSeq(body, 1, k)))

\* a < b and a > b of two numbers, false when either is NaN
NumLt(a, b) == a # NaN /\ b # NaN /\ RLt(a, b)

NumGt(a, b) == a # NaN /\ b # NaN /\ RGt(a, b)

\* What the name field and the slider can hold when the form is submitted
NameInputs ==
    { << >>, <<" ">>, <<"a">>, <<" ", "a", " ">>, <<"a", "b">>,
      <<" ", "a", "b", " ">>, <<"a", "b", "c">> }

SliderInputs ==
    { <<"3">>, <<"0">>, <<"5">>, <<"7">>, <<"-", "1">>, <<"2", ".", "5">>, <<"a">>, << >> }

\* useState(''), useState(3), useState('') and the markup of createPopupContent
InitForm ==
    /\ app \in { [ui |-> u, userName |-> << >>, slider |-> <<"3">>, score |-> Num(3),
                  error |-> "", isOpen |-> TRUE] : u \in {"react", "maplibre"} }
    /\ log = << >>
    /\ pc = "form"
    /\ points = NoValue /\ bandwidth = NoValue /\ cellSize = NoValue
    /\ boundary = NoValue /\ plan = NoValue /\ result = NoValue
    /\ normalizedGrid = NoValue /\ call = NoValue /\ ret = NoValue /\ heap = NoValue

FormFrame ==
    UNCHANGED <<points, bandwidth, cellSize, boundary, plan, result, normalizedGrid,
                call, ret, heap>>

\* onChange={(e) => setUserName(e.target.value)}; typing into #user-name
InputName ==
    /\ pc = "form"
    /\ \E name \in NameInputs : app' = [app EXCEPT !.userName = name]
    /\ UNCHANGED <<log, pc>>
    /\ FormFrame

\* onChange={(e) => setScore(Number(e.target.value))}; moving #score-slider
InputScore ==
    /\ pc = "form"
    /\ \E v \in SliderInputs :
          app' = [app EXCEPT !.slider = v,
                             !.score = IF app.ui = "react" THEN NumberOfString(v) ELSE @]
    /\ UNCHANGED <<log, pc>>
    /\ FormFrame

\* VoteModal.handleSubmit, part_002 lines 40-66; onSubmit is
\* App.handleVoteSubmit, which hands the vote to submitVote
VoteModalHandleSubmit ==
    /\ pc = "form" /\ app.ui = "react"
    /\ IF Len(Trim(app.userName)) = 0 THEN
            /\ app' = [app EXCEPT !.error = "Please enter your name"]
            /\ UNCHANGED <<log, pc>>
       ELSE IF Len(Trim(app.userName)) < 2 THEN
            /\ app' = [app EXCEPT !.error = "Name must be at least 2 characters"]
            /\ UNCHANGED <<log, pc>>
       ELSE IF NumLt(app.score, Num(0)) \/ NumGt(app.score, Num(5)) THEN
            /\ app' = [app EXCEPT !.error = "Please select a valid score"]
            /\ UNCHANGED <<log, pc>>
       ELSE /\ log' = Append(log, [userName |-> Trim(app.userName), score |-> app.score])
            /\ pc' = "submitting"
            /\ UNCHANGED app
    /\ FormFrame

\* The submit listener of setupFormSubmission, popup.js lines 142-167
PopupFormSubmit ==
    /\ pc = "form" /\ app.ui = "maplibre"
    /\ LET name  == Trim(app.userName)
           score == parseInt(app.slider)
       IN  IF Len(name) = 0 THEN
                /\ app' = [app EXCEPT !.error = "Please enter your name"]
                /\ UNCHANGED <<log, pc>>
           ELSE IF Len(name) < 2 THEN
                /\ app' = [app EXCEPT !.error = "Name must be at least 2 characters"]
                /\ UNCHANGED <<log, pc>>
           ELSE IF score = NaN \/ NumLt(score, Num(0)) \/ NumGt(score, Num(5)) THEN
                /\ app' = [app EXCEPT !.error = "Score must be between 0 and 5"]
                /\ UNCHANGED <<log, pc>>
           ELSE /\ log' = Append(log, [userName |-> name, score |-> score])
                /\ pc' = "submitting"
                /\ app' = [app EXCEPT !.error = ""]
    /\ FormFrame

NextForm == InputName \/ InputScore \/ VoteModalHandleSubmit \/ PopupFormSubmit

SpecForm == InitForm /\ [][NextForm]_vars

\* A vote the schema accepts: an integer score in 0..5 and a trimmed name of
\* two characters or more
AcceptableVote(v) ==
    /\ IsNum(v.score) /\ v.score.d = 1 /\ v.score.n \in 0..5
    /\ Len(v.userName) >= 2
    /\ v.userName = Trim(v.userName)

-----------------------------------------------------------------------------
(* The vote modal of the React application: App.jsx with a submission in
   flight between handleVoteSubmit's call of submitVote and its completion *)

\* Positions of a click: two inside the boundary, one outside
ClickLocations ==
    Locations \cup { [lng |-> TEHRAN_CENTER_LNG + 1, lat |-> TEHRAN_CENTER_LAT + 3] }

\* useState of lines 28-35; isConfigured and isLoading after the start-up
\* effects; inFlight is the pending call of submitVote
InitModal ==
    /\ app \in { [isConfigured |-> c, isSelectionMode |-> FALSE, showModal |-> FALSE,
                  selectedLocation |-> Null, isSubmitting |-> FALSE, status |-> "none",
                  inFlight |-> Null] : c \in BOOLEAN }
    /\ pc = "modal"
    /\ points = NoValue /\ bandwidth = NoValue /\ cellSize = NoValue
    /\ boundary = NoValue /\ plan = NoValue /\ result = NoValue
    /\ normalizedGrid = NoValue /\ call = NoValue /\ ret = NoValue
    /\ heap = NoValue /\ log = NoValue

\* handleSelectionToggle, lines 256-268; the button is disabled while
\* !isConfigured (line 325)
HandleSelectionToggle ==
    /\ pc = "modal"
    /\ app.isConfigured
    /\ app' = [app EXCEPT !.isSelectionMode = ~@,
                          !.status = IF ~app.isSelectionMode THEN "info" ELSE "none"]
    /\ AppFrame

\* A click on the map: MapClickHandler (TehranMap.jsx lines 42-52) and
\* handleMapClick, lines 166-191
ClickOnMap ==
    /\ pc = "modal"
    /\ \E loc \in ClickLocations :
          app' = IF ~app.isSelectionMode THEN app
                 ELSE IF ~AppIsPointInBoundary(TehranBoundary, loc)
                 THEN [app EXCEPT !.status = "warning"]
                 ELSE [app EXCEPT !.selectedLocation = loc, !.showModal = TRUE,
                                  !.isSelectionMode = FALSE]
    /\ AppFrame

\* A variant of handleModalClose without the test of line 272
CloseWhileSubmitting ==
    /\ pc = "modal"
    /\ app.showModal
    /\ app' = [app EXCEPT !.showModal = FALSE, !.selectedLocation = Null]
    /\ AppFrame

\* The close button, Cancel and a click on the overlay (VoteModal
\* handleCancel, handleOverlayClick) call handleModalClose, lines 271-276
RequestModalClose ==
    /\ pc = "modal"
    /\ app.showModal
    /\ app' = IF ~app.isSubmitting
              THEN [app EXCEPT !.showModal = FALSE, !.selectedLocation = Null]
              ELSE app
    /\ AppFrame

\* The form is submitted (its controls are disabled while isSubmitting):
\* handleVoteSubmit up to the await of line 208
StartVoteSubmit ==
    /\ pc = "modal"
    /\ app.showModal /\ ~app.isSubmitting
    /\ \E score \in Scores :
          app' = IF ~app.isConfigured THEN [app EXCEPT !.status = "error"]
                 ELSE [app EXCEPT !.isSubmitting = TRUE,
                                  !.inFlight = [lng |-> app.selectedLocation.lng,
                                                lat |-> app.selectedLocation.lat,
                                                score |-> score]]
    /\ AppFrame

\* submitVote settles: handleVoteSubmit from line 215 to the finally block
CompleteVoteSubmit ==
    /\ pc = "modal"
    /\ app.inFlight # Null
    /\ \E outcome \in {"success", "failure", "exception"} :
          app' = IF outcome = "success"
                 THEN [app EXCEPT !.status = "success", !.showModal = FALSE,
                                  !.selectedLocation = Null,
                                  !.isSubmitting = FALSE, !.inFlight = Null]
                 ELSE [app EXCEPT !.status = "error",
                                  !.isSubmitting = FALSE, !.inFlight = Null]
    /\ AppFrame

\* The timers of lines 177-179 and 233-235 hide the status message
HideStatus ==
    /\ pc = "modal"
    /\ app.status \in {"warning", "success"}
    /\ app' = [app EXCEPT !.status = "none"]
    /\ AppFrame

NextModal ==
    \/ HandleSelectionToggle
    \/ ClickOnMap
    \/ RequestModalClose
    \/ StartVoteSubmit
    \/ CompleteVoteSubmit
    \/ HideStatus

SpecModal == InitModal /\ [][NextModal]_vars

\* What one step of the application may do to the modal
ModalStep ==
    LET completes == app.inFlight # Null /\ app'.inFlight = Null
    IN  \* a location is selected only by a click in selection mode
        /\ (app'.selectedLocation # Null /\ app'.selectedLocation # app.selectedLocation)
              => app.isSelectionMode
        \* an open modal has a location
        /\ app'.showModal => app'.selectedLocation # Null
        \* while a submission is in flight the modal closes by its success only
        /\ (app.isSubmitting /\ app.showModal /\ ~app'.showModal)
              => (completes /\ app'.status = "success")
        \* isSubmitting is true exactly while a submission is in flight
        /\ app'.isSubmitting = (app'.inFlight # Null)
        /\ completes => ~app'.isSubmitting
        \* a failed submission leaves the modal and the location as they were
        /\ (completes /\ app'.status = "error")
              => /\ app.showModal /\ app'.showModal
                 /\ app'.selectedLocation = app.selectedLocation

\* C29: in the React application, whatever the order of map clicks, toggles of
\* the selection button, close requests and completions of submissions: a map
\* click is ignored unless selection mode is active, an open modal has a
\* selected location, the modal cannot be closed while a submission is in
\* flight, isSubmitting is false again after every attempt, and a failed
\* submission leaves the modal open with the location unchanged.
C29_ModalProtocol == [][ModalStep]_vars

\* A submission failed while the user had switched selection mode on again:
\* the modal is still open on the location
C29_FailedSubmissionWitness ==
    /\ pc = "modal"
    /\ app.status = "error" /\ app.isConfigured
    /\ app.showModal /\ app.selectedLocation # Null
    /\ ~app.isSubmitting /\ app.isSelectionMode

-----------------------------------------------------------------------------
(* The vote popup of the MapLibre client: popup.js, the click handler of
   map.js, the select button of controls.js and the Escape key of main.js *)

\* Popups created in a run
MaxPopups == 2

\* let currentPopup = null; let selectedLocation = null; selectionMode =
\* false.  displayed holds the popups on the map in document order, each with
\* its position and whether its form carries the submit listener; submitted is
\* the last run of handleVoteSubmission
InitPopup ==
    /\ app = [selectionMode |-> FALSE, displayed |-> << >>, currentPopup |-> Null,
              selectedLocation |-> Null, created |-> 0, submitted |-> Null]
    /\ pc = "popup"
    /\ points = NoValue /\ bandwidth = NoValue /\ cellSize = NoValue
    /\ boundary = NoValue /\ plan = NoValue /\ result = NoValue
    /\ normalizedGrid = NoValue /\ call = NoValue /\ ret = NoValue
    /\ heap = NoValue /\ log = NoValue

\* The sequence s without its element k
RemoveAt(s, k) == SubSeq(s, 1, k - 1) \o SubSeq(s, k + 1, Len(s))

\* popup.remove() of the popup a reference [id |-> n] names, if it is on the map
RemovePopup(displayed, id) ==
    SelectSeq(displayed, LAMBDA p : p.id # id.id)

\* showVotePopup, lines 21-54: a new popup is added to the map and becomes
\* currentPopup; setupFormSubmission attaches the listeners to the element
\* document.getElementById('vote-form') finds, the first form in the document
showVotePopup(a, loc) ==
    LET id    == a.created + 1
        added == Append(a.displayed, [id |-> id, loc |-> loc, listener |-> FALSE])
    IN  [a EXCEPT !.selectedLocation = loc,
                  !.displayed = [added EXCEPT ![1].listener = TRUE],
                  !.currentPopup = [id |-> id],
                  !.created = id]

\* closePopup, lines 246-252
closePopup(a) ==
    [a EXCEPT !.displayed = IF a.currentPopup # Null
                            THEN RemovePopup(a.displayed, a.currentPopup) ELSE @,
              !.currentPopup = Null,
              !.selectedLocation = Null]

\* controls.js handleSelectButtonClick
SelectButtonClick ==
    /\ pc = "popup"
    /\ app' = [app EXCEPT !.selectionMode = ~@]
    /\ AppFrame

\* The click handler of setupMapClickHandler, lines 257-281
PopupMapClick ==
    /\ pc = "popup"
    /\ app.created < MaxPopups
    /\ \E loc \in ClickLocations :
          app' = IF ~app.selectionMode THEN app
                 ELSE IF MapIsPointInBoundary(TRUE, TehranBoundary.features[1], loc) # "true"
                 THEN app
                 ELSE showVotePopup(app, loc)
    /\ AppFrame

\* The close button of a popup: MapLibre removes that popup and fires 'close';
\* the listener of lines 44-47 runs
PopupCloseButton ==
    /\ pc = "popup"
    /\ \E k \in 1..Len(app.displayed) :
          app' = [app EXCEPT !.displayed = RemoveAt(@, k),
                             !.selectedLocation = Null,
                             !.selectionMode = FALSE]
    /\ AppFrame

\* main.js lines 105-111: closePopup(); exitSelectionMode()
PressEscape ==
    /\ pc = "popup"
    /\ app' = [closePopup(app) EXCEPT !.selectionMode = FALSE]
    /\ AppFrame

\* A displayed form with the listener is submitted: handleVoteSubmission,
\* lines 194-229, to its end.  selectedLocation.lng throws when
\* selectedLocation is null; the catch block shows the error.
SubmitVoteForm ==
    /\ pc = "popup"
    /\ \E k \in 1..Len(app.displayed), ok \in BOOLEAN :
          /\ app.displayed[k].listener
          /\ LET run == [popup |-> app.displayed[k].loc,
                         selectedLocation |-> app.selectedLocation]
             IN  app' = IF app.selectedLocation = Null \/ ~ok
                        THEN [app EXCEPT !.submitted = run]
                        ELSE [closePopup(app) EXCEPT !.selectionMode = FALSE,
                                                     !.submitted = run]
    /\ AppFrame

NextPopup ==
    \/ SelectButtonClick
    \/ PopupMapClick
    \/ PopupCloseButton
    \/ PressEscape
    \/ SubmitVoteForm

SpecPopup == InitPopup /\ [][NextPopup]_vars

\* isPopupOpen, lines 258-260
isPopupOpen == app.currentPopup # Null

\* C30: in the MapLibre client, whatever the order of map clicks in selection
\* mode, popup closes, Escape presses and form submissions: at most one vote
\* popup is on the map, isPopupOpen() is true exactly when one is, and a
\* submitted form finds a selected location that is the location of its popup.
C30_OnePopupTracked ==
    /\ Len(app.displayed) <= 1
    /\ isPopupOpen = (Len(app.displayed) > 0)
    /\ app.submitted # Null =>
          /\ app.submitted.selectedLocation # Null
          /\ app.submitted.selectedLocation = app.submitted.popup

====
